---- MODULE Spec2Model ----
(***************************************************************************)
(* Verification model of the LBO calculation engine:                      *)
(*   capital structure -> operating model -> debt model -> exit model     *)
(*   -> returns (IRR, MOIC) -> sensitivity grid.                           *)
(*                                                                         *)
(* Amounts and rates are exact rationals <<n, d>> (d > 0, lowest terms).   *)
(* The model's input domains are dyadic so that every intermediate stays   *)
(* inside TLC's integers; floating-point rounding is not modelled.         *)
(***************************************************************************)
EXTENDS Integers, Sequences, FiniteSets, TLC

VARIABLES
    npf_version,            \* numpy_financial release installed ("1.0" or "1.1")
    capital_inputs,         \* CapitalStructureInputs object held by the caller
    operating_assumptions,  \* OperatingAssumptions object held by the caller
    debt_assumptions,       \* DebtAssumptions object held by the caller
    exit_assumptions,       \* ExitAssumptions object held by the caller
    fcf_series,             \* FCF list handed to DebtModel
    cap_structure,          \* CapitalStructure.results
    operating,              \* OperatingModel.projection
    debt,                   \* DebtModel.schedule
    results,                \* outcome of the last LBOEngine(...) call
    prev_results,           \* an earlier outcome the caller kept
    growth_range,           \* build_sensitivity_grid argument
    exit_multiple_range,    \* build_sensitivity_grid argument
    sensitivity,            \* outcome of the last build_sensitivity_grid call
    ebitda_series,          \* EBITDA list handed to the leverage methods
    leverage_ratios,        \* table returned by DebtModel.get_leverage_ratios
    risk_flags,             \* dict returned by DebtModel.get_risk_flags
    exit_model,             \* ExitModel object: its multiple and assumptions
    cells,                  \* the engine runs of grid cells run side by side
    last_writer,            \* the run that last wrote base_debt_assumptions
    historical_data,        \* st.session_state.historical_data (last revenue)
    ui_inputs,              \* the widget values of the current script run
    live_results,           \* st.session_state.live_results
    live_kpis,              \* st.session_state.live_kpis
    last_input_hash,        \* st.session_state.last_input_hash
    script_runs            \* the live-run blocks executed on this dataset

leverage_vars == <<ebitda_series, leverage_ratios, risk_flags>>
cell_vars == <<cells, last_writer>>
session_state == <<live_results, live_kpis, last_input_hash>>
session_vars == <<historical_data, ui_inputs, session_state, script_runs>>

vars == <<npf_version, capital_inputs, operating_assumptions, debt_assumptions,
          exit_assumptions, fcf_series, cap_structure, operating, debt,
          results, prev_results, growth_range, exit_multiple_range, sensitivity,
          leverage_vars, exit_model, cell_vars, session_vars>>

(***************************************************************************)
(* Exact rational arithmetic                                               *)
(***************************************************************************)
Abs(x) == IF x < 0 THEN -x ELSE x

RECURSIVE GCD(_, _)
GCD(a, b) == IF b = 0 THEN a ELSE GCD(b, a % b)

\* n/d in lowest terms with a positive denominator
Q(n, d) ==
    LET g == GCD(Abs(n), Abs(d))
        s == IF d < 0 THEN -1 ELSE 1
    IN  <<(s * n) \div g, (s * d) \div g>>

R(n) == <<n, 1>>

Zero == R(0)
One == R(1)

RAdd(x, y) ==
    LET g == GCD(x[2], y[2])
    IN  Q(x[1] * (y[2] \div g) + y[1] * (x[2] \div g), (x[2] \div g) * y[2])

RNeg(x) == <<-x[1], x[2]>>

RSub(x, y) == RAdd(x, RNeg(y))

RMul(x, y) ==
    LET g1 == GCD(Abs(x[1]), y[2])
        g2 == GCD(Abs(y[1]), x[2])
    IN  IF x[1] = 0 \/ y[1] = 0 THEN Zero
        ELSE <<(x[1] \div g1) * (y[1] \div g2), (x[2] \div g2) * (y[2] \div g1)>>

\* y # 0
RDiv(x, y) == RMul(x, Q(y[2], y[1]))

RLt(x, y) == RSub(x, y)[1] < 0
RLe(x, y) == RSub(x, y)[1] <= 0
RGt(x, y) == RLt(y, x)
RGe(x, y) == RLe(y, x)

\* Python's max(a, b): the first argument unless the second is strictly greater
PyMax(a, b) == IF RGt(b, a) THEN b ELSE a
\* Python's min(a, b): the first argument unless the second is strictly smaller
PyMin(a, b) == IF RLt(b, a) THEN b ELSE a

\* A variable that may hold no object is <<>> (Python's None) or <<object>>.
Absent == <<>>
Some(x) == <<x>>
Get(v) == v[1]

(***************************************************************************)
(* Capital structure (src/models/capital_structure.py)                     *)
(***************************************************************************)
CapitalStructureInputs(entry_ebitda, entry_multiple, debt_to_ebitda, transaction_fee_pct, financing_fee_pct, cash_on_bs) ==
    [entry_ebitda |-> entry_ebitda, entry_multiple |-> entry_multiple,
     debt_to_ebitda |-> debt_to_ebitda,
     transaction_fee_pct |-> transaction_fee_pct,
     financing_fee_pct |-> financing_fee_pct, cash_on_bs |-> cash_on_bs]

\* equity check with the financing fees left out of the uses
EquityCheckNoFinancingFees(ev, transaction_fees, financing_fees, debt_amt, cash) ==
    RSub(RSub(RAdd(ev, transaction_fees), debt_amt), cash)

\* equity = total_uses - debt - cash_on_bs
EquityCheck(ev, transaction_fees, financing_fees, debt_amt, cash) ==
    RSub(RSub(RAdd(RAdd(ev, transaction_fees), financing_fees), debt_amt), cash)

\* CapitalStructure._calculate
CapitalStructureCalculate(inputs) ==
    LET ev == RMul(inputs.entry_ebitda, inputs.entry_multiple)
        debt_amt == RMul(inputs.entry_ebitda, inputs.debt_to_ebitda)
        transaction_fees == RMul(ev, inputs.transaction_fee_pct)
        financing_fees == RMul(debt_amt, inputs.financing_fee_pct)
        total_uses == RAdd(RAdd(ev, transaction_fees), financing_fees)
        equity == EquityCheck(ev, transaction_fees, financing_fees, debt_amt,
                              inputs.cash_on_bs)
    IN  [enterprise_value |-> ev,
         debt |-> debt_amt,
         equity |-> equity,
         transaction_fees |-> transaction_fees,
         financing_fees |-> financing_fees,
         cash_on_bs |-> inputs.cash_on_bs,
         total_uses |-> total_uses,
         total_sources |-> RAdd(RAdd(debt_amt, equity), inputs.cash_on_bs),
         debt_to_ev |-> IF RGt(ev, Zero) THEN RDiv(debt_amt, ev) ELSE Zero,
         equity_to_ev |-> IF RGt(ev, Zero) THEN RDiv(equity, ev) ELSE Zero]

\* input domains of the capital-structure checks
EntryEbitdaValues == {R(16), R(27), R(32)}
EntryMultipleValues == {R(1), R(8), R(10)}
DebtToEbitdaValues == {Zero, R(4), R(5), R(12)}
TransactionFeeValues == {Zero, Q(1, 50), Q(1, 32)}
FinancingFeeValues == {Zero, Q(3, 100)}
CashOnBsValues == {Zero, R(10)}

CapitalInputDomain ==
    { CapitalStructureInputs(e, m, d, tf, ff, c) :
        e \in EntryEbitdaValues, m \in EntryMultipleValues,
        d \in DebtToEbitdaValues, tf \in TransactionFeeValues,
        ff \in FinancingFeeValues, c \in CashOnBsValues }

(***************************************************************************)
(* Operating model (src/models/operating_model.py)                         *)
(***************************************************************************)
\* Python's None where a float is expected
PyNone == <<>>

OperatingAssumptions(base_revenue, revenue_growth_rates, ebitda_margin, tax_rate, da_pct_revenue, capex_pct_revenue, nwc_pct_revenue) ==
    [base_revenue |-> base_revenue,
     revenue_growth_rates |-> revenue_growth_rates,
     ebitda_margin |-> ebitda_margin, tax_rate |-> tax_rate,
     da_pct_revenue |-> da_pct_revenue,
     capex_pct_revenue |-> capex_pct_revenue,
     nwc_pct_revenue |-> nwc_pct_revenue]

\* taxes without the floor: a negative EBIT earns a tax credit
TaxesUnfloored(ebit, tax_rate) == RMul(ebit, tax_rate)

\* taxes = max(0, ebit * tax_rate)
Taxes(ebit, tax_rate) == PyMax(Zero, RMul(ebit, tax_rate))

\* the NWC change taken against the year-0 level every year
ChangeInNwcFromBase(nwc, prev_nwc, base_nwc) == RSub(nwc, base_nwc)

\* change_in_nwc = nwc - prev_nwc
ChangeInNwc(nwc, prev_nwc, base_nwc) == RSub(nwc, prev_nwc)

\* fcf = nopat + da - capex - change_in_nwc
FreeCashFlow(nopat, da, capex, change_in_nwc) ==
    RSub(RSub(RAdd(nopat, da), capex), change_in_nwc)

\* the row with every year's revenue grown from the base revenue
ProjectionRowFromBase(a, i, prev_revenue, prev_nwc) ==
    LET growth_rate == a.revenue_growth_rates[i]
        revenue == RMul(a.base_revenue, RAdd(One, growth_rate))
        ebitda == RMul(revenue, a.ebitda_margin)
        da == RMul(revenue, a.da_pct_revenue)
        ebit == RSub(ebitda, da)
        taxes == Taxes(ebit, a.tax_rate)
        nopat == RSub(ebit, taxes)
        capex == RMul(revenue, a.capex_pct_revenue)
        nwc == RMul(revenue, a.nwc_pct_revenue)
        change_in_nwc == ChangeInNwc(nwc, prev_nwc,
                                     RMul(a.base_revenue, a.nwc_pct_revenue))
    IN  [year |-> i, revenue |-> revenue, ebitda |-> ebitda, da |-> da,
         ebit |-> ebit, taxes |-> taxes, nopat |-> nopat, capex |-> capex,
         nwc |-> nwc, change_in_nwc |-> change_in_nwc,
         fcf |-> FreeCashFlow(nopat, da, capex, change_in_nwc)]

\* one pass of the projection loop: the row of year i
ProjectionRow(a, i, prev_revenue, prev_nwc) ==
    LET growth_rate == a.revenue_growth_rates[i]
        revenue == RMul(prev_revenue, RAdd(One, growth_rate))
        ebitda == RMul(revenue, a.ebitda_margin)
        da == RMul(revenue, a.da_pct_revenue)
        ebit == RSub(ebitda, da)
        taxes == Taxes(ebit, a.tax_rate)
        nopat == RSub(ebit, taxes)
        capex == RMul(revenue, a.capex_pct_revenue)
        nwc == RMul(revenue, a.nwc_pct_revenue)
        change_in_nwc == ChangeInNwc(nwc, prev_nwc,
                                     RMul(a.base_revenue, a.nwc_pct_revenue))
    IN  [year |-> i, revenue |-> revenue, ebitda |-> ebitda, da |-> da,
         ebit |-> ebit, taxes |-> taxes, nopat |-> nopat, capex |-> capex,
         nwc |-> nwc, change_in_nwc |-> change_in_nwc,
         fcf |-> FreeCashFlow(nopat, da, capex, change_in_nwc)]

RECURSIVE ProjectionLoop(_, _, _)
ProjectionLoop(a, i, data) ==
    IF i > Len(a.revenue_growth_rates) THEN data
    ELSE LET prev_revenue == IF i = 1 THEN a.base_revenue
                             ELSE data[i - 1].revenue
             prev_nwc == IF i = 1 THEN RMul(a.base_revenue, a.nwc_pct_revenue)
                         ELSE data[i - 1].nwc
         IN  ProjectionLoop(a, i + 1,
                            Append(data, ProjectionRow(a, i, prev_revenue, prev_nwc)))

\* 1 + growth_rate raises TypeError when a growth rate is None
ProjectionRaises(a) ==
    \E i \in 1..Len(a.revenue_growth_rates) : a.revenue_growth_rates[i] = PyNone

\* OperatingModel._build_projection
BuildProjection(a) == ProjectionLoop(a, 1, <<>>)

\* OperatingModel.get_fcf_series
GetFcfSeries(projection) == [i \in 1..Len(projection) |-> projection[i].fcf]

\* OperatingModel.get_final_ebitda (the projection is not empty)
GetFinalEbitda(projection) == projection[Len(projection)].ebitda

(***************************************************************************)
(* Debt model (debt_model.py)                                              *)
(***************************************************************************)
DebtAssumptions(initial_debt, interest_rate, amortization_pct, cash_sweep_enabled, cash_sweep_pct) ==
    [initial_debt |-> initial_debt, interest_rate |-> interest_rate,
     amortization_pct |-> amortization_pct,
     cash_sweep_enabled |-> cash_sweep_enabled,
     cash_sweep_pct |-> cash_sweep_pct]

\* the scheduled amount paid whatever is left of the balance
ScheduledAmortUncapped(scheduled_amort_amount, debt_balance) ==
    scheduled_amort_amount

\* scheduled_amort = min(scheduled_amort_amount, debt_balance)
ScheduledAmort(scheduled_amort_amount, debt_balance) ==
    PyMin(scheduled_amort_amount, debt_balance)

\* the sweep without its cap at the balance left after scheduled amortization
CashSweepUncapped(a, fcf, interest, debt_balance, scheduled_amort) ==
    IF a.cash_sweep_enabled /\ RGt(fcf, Zero)
    THEN PyMax(Zero, RMul(RSub(fcf, interest), a.cash_sweep_pct))
    ELSE Zero

\* the sweep taken on the whole FCF, before the year's interest
CashSweepBeforeInterest(a, fcf, interest, debt_balance, scheduled_amort) ==
    IF a.cash_sweep_enabled /\ RGt(fcf, Zero)
    THEN PyMin(PyMax(Zero, RMul(fcf, a.cash_sweep_pct)),
               RSub(debt_balance, scheduled_amort))
    ELSE Zero

\* cash_sweep: 0 unless enabled and fcf > 0; a share of fcf - interest,
\* floored at 0 and capped at debt_balance - scheduled_amort
CashSweep(a, fcf, interest, debt_balance, scheduled_amort) ==
    IF a.cash_sweep_enabled /\ RGt(fcf, Zero)
    THEN PyMin(PyMax(Zero, RMul(RSub(fcf, interest), a.cash_sweep_pct)),
               RSub(debt_balance, scheduled_amort))
    ELSE Zero

\* the ending balance with the year's interest accrued onto it
EndingBalanceAccruing(debt_balance, interest, total_paydown) ==
    PyMax(Zero, RSub(RAdd(debt_balance, interest), total_paydown))

\* debt_balance = max(0, debt_balance - total_paydown)
EndingBalance(debt_balance, interest, total_paydown) ==
    PyMax(Zero, RSub(debt_balance, total_paydown))

\* the row with every year's interest charged on the initial debt
ScheduleRowInterestOnInitial(a, i, fcf, debt_balance) ==
    LET scheduled_amort_amount == RMul(a.initial_debt, a.amortization_pct)
        interest == RMul(a.initial_debt, a.interest_rate)
        scheduled_amort == ScheduledAmort(scheduled_amort_amount, debt_balance)
        cash_sweep == CashSweep(a, fcf, interest, debt_balance, scheduled_amort)
        total_paydown == RAdd(scheduled_amort, cash_sweep)
    IN  [year |-> i, beginning_debt |-> debt_balance, interest |-> interest,
         scheduled_amort |-> scheduled_amort, cash_sweep |-> cash_sweep,
         total_paydown |-> total_paydown,
         ending_debt |-> EndingBalance(debt_balance, interest, total_paydown)]

\* the row with amortization scheduled as a share of the remaining balance
ScheduleRowAmortOnBalance(a, i, fcf, debt_balance) ==
    LET scheduled_amort_amount == RMul(debt_balance, a.amortization_pct)
        interest == RMul(debt_balance, a.interest_rate)
        scheduled_amort == ScheduledAmort(scheduled_amort_amount, debt_balance)
        cash_sweep == CashSweep(a, fcf, interest, debt_balance, scheduled_amort)
        total_paydown == RAdd(scheduled_amort, cash_sweep)
    IN  [year |-> i, beginning_debt |-> debt_balance, interest |-> interest,
         scheduled_amort |-> scheduled_amort, cash_sweep |-> cash_sweep,
         total_paydown |-> total_paydown,
         ending_debt |-> EndingBalance(debt_balance, interest, total_paydown)]

\* one pass of the schedule loop: the row of year i
ScheduleRow(a, i, fcf, debt_balance) ==
    LET scheduled_amort_amount == RMul(a.initial_debt, a.amortization_pct)
        interest == RMul(debt_balance, a.interest_rate)
        scheduled_amort == ScheduledAmort(scheduled_amort_amount, debt_balance)
        cash_sweep == CashSweep(a, fcf, interest, debt_balance, scheduled_amort)
        total_paydown == RAdd(scheduled_amort, cash_sweep)
    IN  [year |-> i, beginning_debt |-> debt_balance, interest |-> interest,
         scheduled_amort |-> scheduled_amort, cash_sweep |-> cash_sweep,
         total_paydown |-> total_paydown,
         ending_debt |-> EndingBalance(debt_balance, interest, total_paydown)]

RECURSIVE ScheduleLoop(_, _, _, _)
ScheduleLoop(a, fcfs, i, data) ==
    IF i > Len(fcfs) THEN data
    ELSE LET debt_balance == IF i = 1 THEN a.initial_debt
                             ELSE data[i - 1].ending_debt
         IN  ScheduleLoop(a, fcfs, i + 1,
                          Append(data, ScheduleRow(a, i, fcfs[i], debt_balance)))

\* DebtModel._build_schedule
BuildSchedule(a, fcfs) == ScheduleLoop(a, fcfs, 1, <<>>)

\* the balance at the end of the first year instead of the last
GetFirstYearDebt(schedule) == schedule[1].ending_debt

\* DebtModel.get_final_debt (the schedule is not empty)
GetFinalDebt(schedule) == schedule[Len(schedule)].ending_debt

(***************************************************************************)
(* Exit model (exit_model.py)                                              *)
(***************************************************************************)
\* a float that is not a number
NaN == <<0, 0>>

ExitAssumptions(exit_mode, fixed_exit_multiple, entry_multiple, industry_multiple, hold_period, revenue_cagr, growth_multiple_factor) ==
    [exit_mode |-> exit_mode, fixed_exit_multiple |-> fixed_exit_multiple,
     entry_multiple |-> entry_multiple, industry_multiple |-> industry_multiple,
     hold_period |-> hold_period, revenue_cagr |-> revenue_cagr,
     growth_multiple_factor |-> growth_multiple_factor]

\* the dataclass defaults of ExitAssumptions
DefaultIndustryMultiple == R(10)
DefaultRevenueCagr == Zero
DefaultGrowthMultipleFactor == Q(1, 2)

\* the entry multiple returned in fixed mode
FixedMultipleFromEntry(a) == a.entry_multiple

\* exit_mode == 'fixed': return self.assumptions.fixed_exit_multiple
FixedMultiple(a) == a.fixed_exit_multiple

\* a reversion that covers hold_period years out of ten
MeanReversionByYears(a) ==
    RAdd(a.entry_multiple,
         RMul(RSub(a.industry_multiple, a.entry_multiple), Q(a.hold_period, 10)))

\* exit_mode == 'mean_reversion': entry + (target - entry) * (1.0)
MeanReversionMultiple(a) ==
    RAdd(a.entry_multiple,
         RMul(RSub(a.industry_multiple, a.entry_multiple), One))

\* the growth adjustment without the floor
GrowthAdjustedUnfloored(a) ==
    IF a.revenue_cagr = NaN THEN NaN
    ELSE RAdd(a.entry_multiple,
              RMul(RSub(RMul(a.revenue_cagr, R(100)), R(5)),
                   a.growth_multiple_factor))

\* exit_mode == 'growth_adjusted':
\* max(5.0, entry_multiple + (revenue_cagr * 100 - 5.0) * growth_multiple_factor)
GrowthAdjustedMultiple(a) ==
    IF a.revenue_cagr = NaN
    THEN R(5)      \* max(5.0, nan) keeps its first argument
    ELSE PyMax(R(5),
               RAdd(a.entry_multiple,
                    RMul(RSub(RMul(a.revenue_cagr, R(100)), R(5)),
                         a.growth_multiple_factor)))

\* ExitModel._calculate_exit_multiple
CalculateExitMultiple(a) ==
    IF a.exit_mode = "fixed" THEN FixedMultiple(a)
    ELSE IF a.exit_mode = "mean_reversion" THEN MeanReversionMultiple(a)
    ELSE IF a.exit_mode = "growth_adjusted" THEN GrowthAdjustedMultiple(a)
    ELSE a.fixed_exit_multiple

\* final_ebitda * exit_multiple raises TypeError when the multiple is None
ExitValueRaises(exit_multiple) == exit_multiple = PyNone

\* ExitModel.calculate_exit_value
CalculateExitValue(exit_multiple, final_ebitda, final_debt) ==
    LET exit_ev == RMul(final_ebitda, exit_multiple)
    IN  [exit_ebitda |-> final_ebitda, exit_multiple |-> exit_multiple,
         exit_ev |-> exit_ev, exit_debt |-> final_debt,
         exit_equity_value |-> RSub(exit_ev, final_debt)]

(***************************************************************************)
(* Numeric library calls                                                   *)
(***************************************************************************)
RECURSIVE Pow(_, _)
Pow(k, n) == IF n = 0 THEN 1 ELSE k * Pow(k, n - 1)

\* q ** (1/n) for q >= 0, rounded down to a multiple of 1/16
PowRoot(q, n) ==
    LET fits(k) == Pow(k, n) * q[2] <= q[1] * Pow(16, n)
        top == 16 * (1 + (q[1] \div q[2]))
        k == CHOOSE j \in 0..top : fits(j) /\ (j = top \/ ~fits(j + 1))
    IN  Q(k, 16)

\* the revenue_cagr entry of OperatingModel.get_metrics_summary:
\* (last / first) ** (1 / len) - 1 on float64 values, where 0/0 and a
\* fractional power of a negative number are nan
RevenueCagr(projection) ==
    LET first == projection[1].revenue
        last == projection[Len(projection)].revenue
    IN  IF first = Zero THEN NaN
        ELSE IF RLt(RDiv(last, first), Zero) THEN NaN
        ELSE RSub(PowRoot(RDiv(last, first), Len(projection)), One)

\* an IRR value: None, nan, or the rate ratio ** (1/n) - 1
IrrNone == [kind |-> "None", ratio |-> Zero, n |-> 0]
IrrNaN == [kind |-> "nan", ratio |-> Zero, n |-> 0]
IrrRate(ratio, n) == [kind |-> "rate", ratio |-> ratio, n |-> n]

\* numpy.roots rejects cash flows that are not finite
NpfIrrRaises(values) == \E i \in 1..Len(values) : values[i][2] = 0

\* numpy_financial.irr on a vector whose only non-zero entries can be the
\* first and the last: nan unless the polynomial has an admissible real
\* root (release 1.0 keeps roots 1/(1+r) > 0, release 1.1 keeps r >= -1)
NpfIrr(values, version) ==
    LET v0 == values[1]
        vn == values[Len(values)]
        n == Len(values) - 1
    IN  IF v0 = Zero THEN IrrNaN
        ELSE LET ratio == RNeg(RDiv(vn, v0))
             IN  IF RGt(ratio, Zero) THEN IrrRate(ratio, n)
                 ELSE IF ratio = Zero /\ version = "1.1" THEN IrrRate(Zero, n)
                 ELSE IrrNaN

(***************************************************************************)
(* Leverage ratios and risk flags (debt_model.py)                          *)
(***************************************************************************)
\* float64 values that are not finite; NaN is <<0, 0>>
PosInf == <<1, 0>>
NegInf == <<-1, 0>>
IsFinite(x) == x[2] # 0

Sign(n) == IF n > 0 THEN 1 ELSE IF n < 0 THEN -1 ELSE 0

\* the quotient of two finite entries of float64 columns: x / 0 is inf or
\* -inf by the sign of x, 0 / 0 is nan, and nothing is raised
FloatDiv(x, y) == IF y = Zero THEN <<Sign(x[1]), 0>> ELSE RDiv(x, y)

\* x > y on float64: false when either side is nan
FloatGt(x, y) ==
    IF x = NaN \/ y = NaN \/ x = y THEN FALSE
    ELSE IF x = PosInf \/ y = NegInf THEN TRUE
    ELSE IF x = NegInf \/ y = PosInf THEN FALSE
    ELSE RGt(x, y)

\* x < y on float64
FloatLt(x, y) == FloatGt(y, x)

\* the leverage ratio taken on the end-of-year balance
DebtToEbitdaOnEnding(row, ebitda) == FloatDiv(row.ending_debt, ebitda)

\* schedule['beginning_debt'] / schedule['ebitda'], one year
DebtToEbitda(row, ebitda) == FloatDiv(row.beginning_debt, ebitda)

\* the interest column used as it is
CoverageDivisorUnreplaced(interest) == interest

\* schedule['interest'].replace(0, 1), one year
CoverageDivisor(interest) == IF interest = Zero THEN One ELSE interest

\* schedule['ebitda'] / schedule['interest'].replace(0, 1), one year
InterestCoverage(ebitda, interest) == FloatDiv(ebitda, CoverageDivisor(interest))

\* DebtModel.get_leverage_ratios (one EBITDA per year of the schedule)
GetLeverageRatios(schedule, ebitdas) ==
    [t \in 1..Len(schedule) |->
        [year |-> schedule[t].year,
         beginning_debt |-> schedule[t].beginning_debt,
         ebitda |-> ebitdas[t],
         debt_to_ebitda |-> DebtToEbitda(schedule[t], ebitdas[t]),
         interest_coverage |-> InterestCoverage(ebitdas[t], schedule[t].interest)]]

\* Series.max(): the largest entry that is not nan, nan when there is none
SeriesMax(column) ==
    LET numbers == { column[t] : t \in 1..Len(column) } \ {NaN}
    IN  IF numbers = {} THEN NaN
        ELSE CHOOSE x \in numbers : \A y \in numbers : ~FloatGt(y, x)

\* Series.min(): the smallest entry that is not nan, nan when there is none
SeriesMin(column) ==
    LET numbers == { column[t] : t \in 1..Len(column) } \ {NaN}
    IN  IF numbers = {} THEN NaN
        ELSE CHOOSE x \in numbers : \A y \in numbers : ~FloatLt(y, x)

\* a ratio at the limit counts as high leverage too
ReachesLeverageLimit(ratio) == ~FloatLt(ratio, R(6)) /\ ratio # NaN

\* leverage['debt_to_ebitda'] > 6.0, one year
ExceedsLeverageLimit(ratio) == FloatGt(ratio, R(6))

\* leverage['interest_coverage'] < 1.5, one year
BelowCoverageLimit(ratio) == FloatLt(ratio, Q(3, 2))

\* DebtModel.get_risk_flags
GetRiskFlags(schedule, ebitdas) ==
    LET leverage == GetLeverageRatios(schedule, ebitdas)
        debt_to_ebitda == [t \in 1..Len(leverage) |-> leverage[t].debt_to_ebitda]
        interest_coverage == [t \in 1..Len(leverage) |-> leverage[t].interest_coverage]
    IN  [high_leverage |->
            \E t \in 1..Len(leverage) : ExceedsLeverageLimit(debt_to_ebitda[t]),
         low_coverage |->
            \E t \in 1..Len(leverage) : BelowCoverageLimit(interest_coverage[t]),
         max_debt_to_ebitda |-> SeriesMax(debt_to_ebitda),
         min_interest_coverage |-> SeriesMin(interest_coverage)]

(***************************************************************************)
(* LBO engine (src/models/lbo_engine.py)                                   *)
(***************************************************************************)
\* the overwrite done only when the caller left initial_debt at zero
InjectDebtIfUnset(da, sources_uses) ==
    IF da.initial_debt = Zero
    THEN [da EXCEPT !.initial_debt = sources_uses.debt]
    ELSE da

\* the capital structure's debt added to what initial_debt holds
InjectDebtAdding(da, sources_uses) ==
    [da EXCEPT !.initial_debt = RAdd(@, sources_uses.debt)]

\* self.debt_assumptions.initial_debt = sources_uses['debt']
InjectDebt(da, sources_uses) == [da EXCEPT !.initial_debt = sources_uses.debt]

\* self.exit_assumptions.revenue_cagr = ...['revenue_cagr']
InjectCagr(ea, projection) == [ea EXCEPT !.revenue_cagr = RevenueCagr(projection)]

RECURSIVE Zeros(_)
\* [0] * k
Zeros(k) == IF k <= 0 THEN <<>> ELSE <<Zero>> \o Zeros(k - 1)

\* one zero per year between the two flows
EquityCashflowsPerYear(equity_invested, years, exit_equity) ==
    <<RNeg(equity_invested)>> \o Zeros(years) \o <<exit_equity>>

\* [-equity_invested] + [0] * (years - 1) + [exit_equity]
EquityCashflows(equity_invested, years, exit_equity) ==
    <<RNeg(equity_invested)>> \o Zeros(years - 1) \o <<exit_equity>>

\* try: irr = npf.irr(equity_cashflows)  except: irr = None
SolveIrr(equity_cashflows, version) ==
    IF NpfIrrRaises(equity_cashflows) THEN IrrNone
    ELSE NpfIrr(equity_cashflows, version)

\* moic = exit_equity / equity_invested if equity_invested > 0 else 0
Moic(exit_equity, equity_invested) ==
    IF RGt(equity_invested, Zero) THEN RDiv(exit_equity, equity_invested)
    ELSE Zero

\* the outcome of a call that raised, with the objects as the call left them
Raised(da, ea) ==
    [raised |-> TRUE, results |-> <<>>, debt_assumptions |-> da,
     exit_assumptions |-> ea]

\* LBOEngine._run_model, steps 4 and 5 (the projection is not empty)
RunExitAndReturns(sources_uses, projection, da, schedule, ea0, version) ==
    LET ea == InjectCagr(ea0, projection)
        exit_multiple == CalculateExitMultiple(ea)
    IN  IF ExitValueRaises(exit_multiple) THEN Raised(da, ea)
        ELSE
        LET exit_results == CalculateExitValue(exit_multiple,
                                               GetFinalEbitda(projection),
                                               GetFinalDebt(schedule))
            equity_invested == sources_uses.equity
            exit_equity == exit_results.exit_equity_value
            years == Len(GetFcfSeries(projection))
            equity_cashflows == EquityCashflows(equity_invested, years, exit_equity)
            ebitdas == [t \in 1..Len(projection) |-> projection[t].ebitda]
        IN  [raised |-> FALSE,
             results |-> <<[sources_uses |-> sources_uses,
                            operating_projection |-> projection,
                            debt_schedule |-> schedule,
                            leverage_ratios |-> GetLeverageRatios(schedule, ebitdas),
                            risk_flags |-> GetRiskFlags(schedule, ebitdas),
                            exit_results |-> exit_results,
                            equity_cashflows |-> equity_cashflows,
                            irr |-> SolveIrr(equity_cashflows, version),
                            moic |-> Moic(exit_equity, equity_invested),
                            equity_invested |-> equity_invested,
                            exit_equity_value |-> exit_equity,
                            hold_period |-> years]>>,
             debt_assumptions |-> da,
             exit_assumptions |-> ea]

\* LBOEngine.__init__ / _run_model: the result bundle, or the exception, and
\* the two assumption objects as the run leaves them
RunModel(ci, oa, da0, ea0, version) ==
    LET sources_uses == CapitalStructureCalculate(ci)
    IN  IF ProjectionRaises(oa) THEN Raised(da0, ea0)
        ELSE
        LET projection == BuildProjection(oa)
            da == InjectDebt(da0, sources_uses)
            schedule == BuildSchedule(da, GetFcfSeries(projection))
        IN  IF Len(projection) = 0
            THEN Raised(da, ea0)    \* get_final_ebitda: iloc[-1] of nothing
            ELSE RunExitAndReturns(sources_uses, projection, da, schedule,
                                   ea0, version)

(***************************************************************************)
(* Sensitivity grid (src/models/lbo_engine.py, build_sensitivity_grid)     *)
(***************************************************************************)
\* [growth] * len(base_operating_assumptions.revenue_growth_rates), the other
\* operating fields copied from the base
GridCellOperating(base_oa, growth) ==
    OperatingAssumptions(base_oa.base_revenue,
                         [i \in 1..Len(base_oa.revenue_growth_rates) |-> growth],
                         base_oa.ebitda_margin, base_oa.tax_rate,
                         base_oa.da_pct_revenue, base_oa.capex_pct_revenue,
                         base_oa.nwc_pct_revenue)

\* the cell's exit assumptions carrying the base's exit mode
GridCellExitBaseMode(base_ea, exit_mult) ==
    ExitAssumptions(base_ea.exit_mode, exit_mult, base_ea.entry_multiple,
                    DefaultIndustryMultiple, base_ea.hold_period,
                    DefaultRevenueCagr, DefaultGrowthMultipleFactor)

\* ExitAssumptions(exit_mode='fixed', fixed_exit_multiple=exit_mult,
\*                 entry_multiple=..., hold_period=...)
GridCellExit(base_ea, exit_mult) ==
    ExitAssumptions("fixed", exit_mult, base_ea.entry_multiple,
                    DefaultIndustryMultiple, base_ea.hold_period,
                    DefaultRevenueCagr, DefaultGrowthMultipleFactor)

\* the cell's engine call without the try/except around it
CellOutcomeUncaught(run) ==
    IF run.raised
    THEN [propagates |-> TRUE, irr |-> IrrNone, moic |-> PyNone]
    ELSE [propagates |-> FALSE, irr |-> Get(run.results).irr,
          moic |-> Get(run.results).moic]

\* try: engine = LBOEngine(...); irr = ...; moic = ...
\* except: irr = None; moic = None
CellOutcome(run) ==
    IF run.raised
    THEN [propagates |-> FALSE, irr |-> IrrNone, moic |-> PyNone]
    ELSE [propagates |-> FALSE, irr |-> Get(run.results).irr,
          moic |-> Get(run.results).moic]

RECURSIVE GridLoop(_, _, _, _, _, _, _, _, _)
\* the two nested loops, cell k of Len(growths) * Len(exit_mults); da is
\* base_debt_assumptions, which every cell's engine run writes to.  Each
\* cell's engine run is made once and its outcome bound to run.
GridLoop(ci, base_oa, da, base_ea, growths, exit_mults, version, k, rows) ==
    IF k > Len(growths) * Len(exit_mults)
    THEN [raised |-> FALSE, table |-> rows, debt_assumptions |-> da]
    ELSE LET growth == growths[((k - 1) \div Len(exit_mults)) + 1]
             exit_mult == exit_mults[((k - 1) % Len(exit_mults)) + 1]
         IN  CHOOSE out \in
               { IF CellOutcome(run).propagates
                 THEN [raised |-> TRUE, table |-> <<>>,
                       debt_assumptions |-> run.debt_assumptions]
                 ELSE GridLoop(ci, base_oa, run.debt_assumptions, base_ea,
                               growths, exit_mults, version, k + 1,
                               Append(rows, [growth_rate |-> growth,
                                             exit_multiple |-> exit_mult,
                                             irr |-> CellOutcome(run).irr,
                                             moic |-> CellOutcome(run).moic]))
                 : run \in { RunModel(ci, GridCellOperating(base_oa, growth), da,
                                      GridCellExit(base_ea, exit_mult), version) } }
               : TRUE

\* build_sensitivity_grid
BuildGrid(ci, base_oa, base_da, base_ea, growths, exit_mults, version) ==
    GridLoop(ci, base_oa, base_da, base_ea, growths, exit_mults, version, 1, <<>>)

\* variables a component specification does not use
IdleEngine ==
    /\ results = Absent
    /\ prev_results = Absent
    /\ growth_range = <<>>
    /\ exit_multiple_range = <<>>
    /\ sensitivity = Absent

\* no leverage table has been asked for
IdleLeverage ==
    /\ ebitda_series = <<>>
    /\ leverage_ratios = Absent
    /\ risk_flags = Absent

\* no grid cells are running side by side
IdleCells ==
    /\ cells = Absent
    /\ last_writer = 0

\* no application session is open
IdleSession ==
    /\ historical_data = Absent
    /\ ui_inputs = Absent
    /\ live_results = PyNone
    /\ live_kpis = PyNone
    /\ last_input_hash = PyNone
    /\ script_runs = <<>>

InitCapital ==
    /\ npf_version = "1.0"
    /\ capital_inputs \in { Some(c) : c \in CapitalInputDomain }
    /\ operating_assumptions = Absent
    /\ debt_assumptions = Absent
    /\ exit_assumptions = Absent
    /\ fcf_series = <<>>
    /\ cap_structure = Absent
    /\ operating = Absent
    /\ debt = Absent
    /\ IdleEngine
    /\ IdleLeverage
    /\ IdleCells
    /\ IdleSession
    /\ exit_model = Absent

\* CapitalStructure(inputs): the constructor stores _calculate()
NewCapitalStructure ==
    /\ capital_inputs # Absent
    /\ cap_structure' = Some(CapitalStructureCalculate(Get(capital_inputs)))
    /\ UNCHANGED <<leverage_vars, cell_vars, session_vars, exit_model, npf_version, capital_inputs,
                   operating_assumptions,
                   debt_assumptions, exit_assumptions, fcf_series, operating,
                   debt, results, prev_results, growth_range,
                   exit_multiple_range, sensitivity>>

NextCapital == NewCapitalStructure

SpecCapital == InitCapital /\ [][NextCapital]_vars

\* C1: for all valid capital-structure inputs the equity check is
\* (EV + transaction fees + financing fees) - debt - cash_on_bs, with
\* EV = entry_ebitda * entry_multiple, debt = entry_ebitda * debt_to_ebitda,
\* transaction fees = EV * transaction_fee_pct and financing fees =
\* debt * financing_fee_pct, so total sources equal total uses.
SourcesEqualUses ==
    cap_structure # Absent =>
        LET r == Get(cap_structure)
            i == Get(capital_inputs)
        IN  /\ r.enterprise_value = RMul(i.entry_ebitda, i.entry_multiple)
            /\ r.debt = RMul(i.entry_ebitda, i.debt_to_ebitda)
            /\ r.transaction_fees = RMul(r.enterprise_value, i.transaction_fee_pct)
            /\ r.financing_fees = RMul(r.debt, i.financing_fee_pct)
            /\ RAdd(RAdd(r.equity, r.debt), i.cash_on_bs)
                 = RAdd(RAdd(r.enterprise_value, r.transaction_fees), r.financing_fees)
            /\ r.total_sources = r.total_uses
            /\ r.total_uses
                 = RAdd(RAdd(r.enterprise_value, r.transaction_fees), r.financing_fees)

\* the spec's concrete scenario: 27.0 x 10.0, 5.0x debt, 2% / 3% fees, no cash
SourcesEqualUsesWitness ==
    /\ cap_structure # Absent
    /\ Get(capital_inputs) = CapitalStructureInputs(R(27), R(10), R(5), Q(1, 50),
                                                    Q(3, 100), Zero)
    /\ Get(cap_structure).enterprise_value = R(270)
    /\ Get(cap_structure).debt = R(135)
    /\ Get(cap_structure).equity = Q(14445, 100)
    /\ Get(cap_structure).financing_fees # Zero

(***************************************************************************)
(* Operating model on its own                                              *)
(***************************************************************************)
MaxYears == 3

RECURSIVE SeqsUpTo(_, _)
\* the sequences over S of length 0..n
SeqsUpTo(S, n) ==
    IF n = 0 THEN {<<>>}
    ELSE LET shorter == SeqsUpTo(S, n - 1)
         IN  shorter \cup { Append(q, x) : q \in shorter, x \in S }

GrowthValues == {Q(-1, 2), Zero, Q(1, 4)}

OperatingDomain ==
    { OperatingAssumptions(b, g, m, t, Q(1, 8), Q(1, 8), n) :
        b \in {R(64), R(128)}, g \in SeqsUpTo(GrowthValues, MaxYears),
        m \in {Q(1, 16), Q(1, 8), Q(1, 4)}, t \in {Zero, Q(1, 4)},
        n \in {Zero, Q(1, 8)} }

InitOperating ==
    /\ npf_version = "1.0"
    /\ capital_inputs = Absent
    /\ operating_assumptions \in { Some(a) : a \in OperatingDomain }
    /\ debt_assumptions = Absent
    /\ exit_assumptions = Absent
    /\ fcf_series = <<>>
    /\ cap_structure = Absent
    /\ operating = Absent
    /\ debt = Absent
    /\ IdleEngine
    /\ IdleLeverage
    /\ IdleCells
    /\ IdleSession
    /\ exit_model = Absent

\* OperatingModel(assumptions): the constructor stores _build_projection()
NewOperatingModel ==
    /\ operating_assumptions # Absent
    /\ ~ProjectionRaises(Get(operating_assumptions))
    /\ operating' = Some(BuildProjection(Get(operating_assumptions)))
    /\ UNCHANGED <<leverage_vars, cell_vars, session_vars, exit_model, npf_version, capital_inputs,
                   operating_assumptions,
                   debt_assumptions, exit_assumptions, fcf_series,
                   cap_structure, debt, results, prev_results, growth_range,
                   exit_multiple_range, sensitivity>>

NextOperating == NewOperatingModel

SpecOperating == InitOperating /\ [][NextOperating]_vars

\* C4: in every projected year fcf = nopat + da - capex - change_in_nwc,
\* where change_in_nwc is the year's NWC minus the previous year's NWC and
\* the year-0 NWC is base_revenue * nwc_pct_revenue.
FcfIdentity ==
    operating # Absent =>
        LET proj == Get(operating)
            a == Get(operating_assumptions)
            nwc0 == RMul(a.base_revenue, a.nwc_pct_revenue)
        IN  \A t \in 1..Len(proj) :
              /\ proj[t].fcf = RSub(RSub(RAdd(proj[t].nopat, proj[t].da),
                                         proj[t].capex), proj[t].change_in_nwc)
              /\ proj[t].change_in_nwc
                   = RSub(proj[t].nwc, IF t = 1 THEN nwc0 ELSE proj[t - 1].nwc)

\* a projection whose second-year NWC change differs from the change against
\* the year-0 level, with taxes paid
FcfIdentityWitness ==
    /\ operating # Absent
    /\ Len(Get(operating)) >= 2
    /\ Get(operating)[2].change_in_nwc # Zero
    /\ Get(operating)[1].change_in_nwc # Zero
    /\ Get(operating)[2].taxes # Zero
    /\ Get(operating)[2].fcf # Get(operating)[1].fcf

\* C26: the projection has one row per growth rate; revenue(1) is
\* base_revenue * (1 + growth(1)) and revenue(t) is revenue(t-1) *
\* (1 + growth(t)) for t > 1; each year's EBITDA is that year's revenue
\* times ebitda_margin.
RevenueRecurrence ==
    operating # Absent =>
        LET proj == Get(operating)
            a == Get(operating_assumptions)
        IN  /\ Len(proj) = Len(a.revenue_growth_rates)
            /\ \A t \in 1..Len(proj) :
                 /\ proj[t].year = t
                 /\ proj[t].revenue
                      = RMul(IF t = 1 THEN a.base_revenue
                             ELSE proj[t - 1].revenue,
                             RAdd(One, a.revenue_growth_rates[t]))
                 /\ proj[t].ebitda = RMul(proj[t].revenue, a.ebitda_margin)

\* a projection that grows in its first year and again, at another rate, in
\* its second
RevenueRecurrenceWitness ==
    /\ operating # Absent
    /\ Len(Get(operating)) >= 2
    /\ Get(operating_assumptions).revenue_growth_rates[1] # Zero
    /\ Get(operating_assumptions).revenue_growth_rates[2] # Zero
    /\ Get(operating_assumptions).revenue_growth_rates[2]
         # Get(operating_assumptions).revenue_growth_rates[1]
    /\ Get(operating)[2].revenue
         # RMul(Get(operating_assumptions).base_revenue,
                RAdd(One, Get(operating_assumptions).revenue_growth_rates[2]))

\* C27: in every projected year taxes = max(0, ebit * tax_rate); taxes are
\* never negative, and when EBIT is zero or negative taxes are 0 and NOPAT
\* equals EBIT.
TaxesFlooredAtZero ==
    operating # Absent =>
        \A t \in 1..Len(Get(operating)) :
            LET row == Get(operating)[t]
            IN  /\ row.taxes
                     = PyMax(Zero, RMul(row.ebit,
                                        Get(operating_assumptions).tax_rate))
                /\ RGe(row.taxes, Zero)
                /\ RLe(row.ebit, Zero)
                     => (row.taxes = Zero /\ row.nopat = row.ebit)

\* a year with a loss at a positive tax rate, taxed at zero
TaxesFlooredAtZeroWitness ==
    /\ operating # Absent
    /\ RGt(Get(operating_assumptions).tax_rate, Zero)
    /\ \E t \in 1..Len(Get(operating)) :
         /\ RLt(Get(operating)[t].ebit, Zero)
         /\ Get(operating)[t].taxes = Zero
         /\ Get(operating)[t].nopat = Get(operating)[t].ebit

(***************************************************************************)
(* Debt model on its own                                                   *)
(***************************************************************************)
FcfValues == {R(-8), Zero, R(16), R(256)}

DebtDomain ==
    { DebtAssumptions(d, r, am, en, sw) :
        d \in {R(-16), Zero, R(64), R(135)}, r \in {Zero, Q(1, 8)},
        am \in {Q(-1, 4), Zero, Q(1, 8), Q(3, 4)}, en \in BOOLEAN,
        sw \in {Zero, Q(1, 2), R(2)} }

InitDebt ==
    /\ npf_version = "1.0"
    /\ capital_inputs = Absent
    /\ operating_assumptions = Absent
    /\ debt_assumptions \in { Some(a) : a \in DebtDomain }
    /\ exit_assumptions = Absent
    /\ fcf_series \in SeqsUpTo(FcfValues, MaxYears)
    /\ cap_structure = Absent
    /\ operating = Absent
    /\ debt = Absent
    /\ IdleEngine
    /\ IdleLeverage
    /\ IdleCells
    /\ IdleSession
    /\ exit_model = Absent

\* DebtModel(assumptions, fcf_series): the constructor stores _build_schedule()
NewDebtModel ==
    /\ debt_assumptions # Absent
    /\ debt' = Some(BuildSchedule(Get(debt_assumptions), fcf_series))
    /\ UNCHANGED <<leverage_vars, cell_vars, session_vars, exit_model, npf_version, capital_inputs,
                   operating_assumptions,
                   debt_assumptions, exit_assumptions, fcf_series,
                   cap_structure, operating, results, prev_results,
                   growth_range, exit_multiple_range, sensitivity>>

NextDebt == NewDebtModel

SpecDebt == InitDebt /\ [][NextDebt]_vars

PaydownWithinBalance ==
    debt # Absent =>
        \A t \in 1..Len(Get(debt)) :
            /\ Get(debt)[t].total_paydown
                 = RAdd(Get(debt)[t].scheduled_amort, Get(debt)[t].cash_sweep)
            /\ RLe(RAdd(Get(debt)[t].scheduled_amort, Get(debt)[t].cash_sweep),
                   Get(debt)[t].beginning_debt)

\* a year whose sweep is cut down to what is left after scheduled amortization
PaydownWithinBalanceWitness ==
    /\ debt # Absent
    /\ \E t \in 1..Len(Get(debt)) :
         LET row == Get(debt)[t]
         IN  /\ RGt(row.scheduled_amort, Zero)
             /\ RGt(row.cash_sweep, Zero)
             /\ row.total_paydown = row.beginning_debt
             /\ RGt(CashSweepUncapped(Get(debt_assumptions), fcf_series[t],
                                      row.interest, row.beginning_debt,
                                      row.scheduled_amort),
                    row.cash_sweep)

\* C23: the schedule has one row per FCF entry, numbered 1..N; the first
\* beginning debt is initial_debt and every later one is the previous year's
\* ending debt; interest is beginning debt times the interest rate; ending
\* debt is max(0, beginning debt - scheduled amortization - cash sweep).
DebtScheduleRecurrence ==
    debt # Absent =>
        LET schedule == Get(debt)
            a == Get(debt_assumptions)
        IN  /\ Len(schedule) = Len(fcf_series)
            /\ \A t \in 1..Len(schedule) :
                 /\ schedule[t].year = t
                 /\ schedule[t].beginning_debt
                      = IF t = 1 THEN a.initial_debt
                        ELSE schedule[t - 1].ending_debt
                 /\ schedule[t].interest
                      = RMul(schedule[t].beginning_debt, a.interest_rate)
                 /\ schedule[t].ending_debt
                      = PyMax(Zero, RSub(RSub(schedule[t].beginning_debt,
                                              schedule[t].scheduled_amort),
                                         schedule[t].cash_sweep))

\* a schedule whose second year starts from a balance the first year paid
\* down, bears interest and pays both kinds of paydown
DebtScheduleRecurrenceWitness ==
    /\ debt # Absent
    /\ Len(Get(debt)) >= 2
    /\ Get(debt)[2].beginning_debt # Get(debt_assumptions).initial_debt
    /\ RGt(Get(debt)[2].interest, Zero)
    /\ RGt(Get(debt)[2].scheduled_amort, Zero)
    /\ RGt(Get(debt)[2].cash_sweep, Zero)
    /\ RGt(Get(debt)[2].ending_debt, Zero)

\* C24: in every year scheduled_amort = min(initial_debt * amortization_pct,
\* beginning_debt): a fixed share of the initial debt, not of the remaining
\* balance, capped by the remaining balance.
AmortIsShareOfInitialDebt ==
    debt # Absent =>
        LET a == Get(debt_assumptions)
        IN  \A t \in 1..Len(Get(debt)) :
              Get(debt)[t].scheduled_amort
                = PyMin(RMul(a.initial_debt, a.amortization_pct),
                        Get(debt)[t].beginning_debt)

\* a later year that starts from a smaller balance and still amortizes the
\* full share of the initial debt
AmortIsShareOfInitialDebtWitness ==
    /\ debt # Absent
    /\ \E t \in 2..Len(Get(debt)) :
         LET a == Get(debt_assumptions)
             amount == RMul(a.initial_debt, a.amortization_pct)
         IN  /\ RGt(amount, Zero)
             /\ RLt(Get(debt)[t].beginning_debt, a.initial_debt)
             /\ RGt(Get(debt)[t].beginning_debt, amount)
             /\ Get(debt)[t].scheduled_amort = amount
             /\ amount # RMul(Get(debt)[t].beginning_debt, a.amortization_pct)

\* C25: in every year cash_sweep is 0 when the sweep is disabled or the
\* year's FCF is not positive; otherwise it is
\* min(cash_sweep_pct * max(0, FCF - interest), beginning_debt -
\* scheduled_amort): taken after the year's interest and scheduled
\* amortization and capped by what is left of the balance.
SweepAfterInterestAndAmort ==
    debt # Absent =>
        LET a == Get(debt_assumptions)
        IN  \A t \in 1..Len(Get(debt)) :
              LET row == Get(debt)[t]
              IN  row.cash_sweep
                    = IF ~a.cash_sweep_enabled \/ RLe(fcf_series[t], Zero)
                      THEN Zero
                      ELSE PyMin(RMul(a.cash_sweep_pct,
                                      PyMax(Zero, RSub(fcf_series[t],
                                                       row.interest))),
                                 RSub(row.beginning_debt, row.scheduled_amort))

\* a year that pays interest and sweeps its share of FCF - interest, less
\* than the balance left after scheduled amortization
SweepAfterInterestAndAmortWitness ==
    /\ debt # Absent
    /\ \E t \in 1..Len(Get(debt)) :
         LET row == Get(debt)[t]
             a == Get(debt_assumptions)
         IN  /\ RGt(row.interest, Zero)
             /\ RGt(row.scheduled_amort, Zero)
             /\ RGt(row.cash_sweep, Zero)
             /\ row.cash_sweep = RMul(a.cash_sweep_pct,
                                      RSub(fcf_series[t], row.interest))
             /\ RLt(row.cash_sweep,
                    RSub(row.beginning_debt, row.scheduled_amort))

\* C30: with a non-negative initial debt and amortization rate, once a
\* year's ending debt is 0 every later year has beginning debt, interest,
\* scheduled amortization, cash sweep and ending debt all 0, whatever the FCF
\* of those years.
ZeroDebtIsAbsorbing ==
    (/\ debt # Absent
     /\ RGe(Get(debt_assumptions).initial_debt, Zero)
     /\ RGe(Get(debt_assumptions).amortization_pct, Zero))
        => \A t, u \in 1..Len(Get(debt)) :
             (t < u /\ Get(debt)[t].ending_debt = Zero)
                 => /\ Get(debt)[u].beginning_debt = Zero
                    /\ Get(debt)[u].interest = Zero
                    /\ Get(debt)[u].scheduled_amort = Zero
                    /\ Get(debt)[u].cash_sweep = Zero
                    /\ Get(debt)[u].ending_debt = Zero

\* a debt with a scheduled amount that is repaid in a year before the last,
\* followed by a year with the sweep enabled and a positive FCF
ZeroDebtIsAbsorbingWitness ==
    /\ debt # Absent
    /\ RGt(Get(debt_assumptions).initial_debt, Zero)
    /\ RGt(Get(debt_assumptions).amortization_pct, Zero)
    /\ RGt(Get(debt_assumptions).interest_rate, Zero)
    /\ RGt(Get(debt_assumptions).cash_sweep_pct, Zero)
    /\ Get(debt_assumptions).cash_sweep_enabled
    /\ \E t, u \in 1..Len(Get(debt)) :
         /\ t < u
         /\ RGt(Get(debt)[t].beginning_debt, Zero)
         /\ Get(debt)[t].ending_debt = Zero
         /\ RGt(fcf_series[u], Zero)
         /\ Get(debt)[u].ending_debt = Zero

(***************************************************************************)
(* Engine runs                                                             *)
(***************************************************************************)
\* the last input has an entry multiple below 1.0
EngineCapitalDomain ==
    { CapitalStructureInputs(e, R(8), d, Q(1, 32), Q(1, 32), Zero) :
        e \in {R(16)}, d \in {Zero, R(4), R(12)} }
    \cup { CapitalStructureInputs(R(16), Q(1, 2), Zero, Q(1, 32), Q(1, 32), Zero) }

MaxHold == 2

EngineGrowthValues == {Q(-1, 2), Q(1, 4)}

EngineOperatingDomain ==
    { OperatingAssumptions(R(128), g, Q(1, 4), Q(1, 4), Q(1, 8), Q(1, 8), Q(1, 8)) :
        g \in SeqsUpTo(EngineGrowthValues, MaxHold) }

\* what a caller writes into initial_debt when constructing DebtAssumptions
CallerInitialDebtValues == {Zero, R(50)}

EngineDebtDomain ==
    { DebtAssumptions(d, Q(1, 8), Q(1, 8), en, Q(1, 2)) :
        d \in CallerInitialDebtValues, en \in BOOLEAN }

\* what a caller writes into revenue_cagr when constructing ExitAssumptions
CallerRevenueCagrValues == {DefaultRevenueCagr}

EngineExitDomain ==
    { ExitAssumptions(mode, R(8), R(8), R(6), 5, c, Q(1, 2)) :
        mode \in {"fixed", "mean_reversion", "growth_adjusted"},
        c \in CallerRevenueCagrValues }

InitEngine ==
    /\ npf_version \in {"1.0", "1.1"}
    /\ capital_inputs \in { Some(c) : c \in EngineCapitalDomain }
    /\ operating_assumptions \in { Some(a) : a \in EngineOperatingDomain }
    /\ debt_assumptions \in { Some(a) : a \in EngineDebtDomain }
    /\ exit_assumptions \in { Some(a) : a \in EngineExitDomain }
    /\ fcf_series = <<>>
    /\ cap_structure = Absent
    /\ operating = Absent
    /\ debt = Absent
    /\ IdleEngine
    /\ IdleLeverage
    /\ IdleCells
    /\ IdleSession
    /\ exit_model = Absent

\* the input tuple of an engine run: every field the engine does not
\* overwrite before reading it
InputTuple(ci, oa, da, ea) ==
    [capital |-> ci, operating |-> oa,
     interest_rate |-> da.interest_rate,
     amortization_pct |-> da.amortization_pct,
     cash_sweep_enabled |-> da.cash_sweep_enabled,
     cash_sweep_pct |-> da.cash_sweep_pct,
     exit_mode |-> ea.exit_mode,
     fixed_exit_multiple |-> ea.fixed_exit_multiple,
     entry_multiple |-> ea.entry_multiple,
     industry_multiple |-> ea.industry_multiple,
     hold_period |-> ea.hold_period,
     growth_multiple_factor |-> ea.growth_multiple_factor]

\* engine = LBOEngine(capital_inputs, operating_assumptions,
\*                    debt_assumptions, exit_assumptions)
RunEngine ==
    LET run == RunModel(Get(capital_inputs), Get(operating_assumptions),
                        Get(debt_assumptions), Get(exit_assumptions),
                        npf_version)
    IN  /\ results' = Some([raised |-> run.raised,
                            results |-> run.results,
                            inputs |-> InputTuple(Get(capital_inputs),
                                                  Get(operating_assumptions),
                                                  Get(debt_assumptions),
                                                  Get(exit_assumptions)),
                            initial_debt_before |-> Get(debt_assumptions).initial_debt])
        /\ debt_assumptions' = Some(run.debt_assumptions)
        /\ exit_assumptions' = Some(run.exit_assumptions)
        /\ UNCHANGED <<leverage_vars, cell_vars, session_vars, exit_model, npf_version, capital_inputs,
                       operating_assumptions,
                       fcf_series, cap_structure, operating, debt,
                       prev_results, growth_range, exit_multiple_range,
                       sensitivity>>

\* res1 = engine.get_results(): the caller keeps the outcome of a run
KeepResults ==
    /\ results # Absent
    /\ prev_results' = results
    /\ UNCHANGED <<leverage_vars, cell_vars, session_vars, exit_model, npf_version, capital_inputs,
                   operating_assumptions,
                   debt_assumptions, exit_assumptions, fcf_series,
                   cap_structure, operating, debt, results, growth_range,
                   exit_multiple_range, sensitivity>>

\* the caller builds a new DebtAssumptions with the same terms
NewDebtAssumptions ==
    /\ \E d \in CallerInitialDebtValues :
         debt_assumptions' = Some([Get(debt_assumptions) EXCEPT !.initial_debt = d])
    /\ UNCHANGED <<leverage_vars, cell_vars, session_vars, exit_model, npf_version, capital_inputs,
                   operating_assumptions,
                   exit_assumptions, fcf_series, cap_structure, operating,
                   debt, results, prev_results, growth_range,
                   exit_multiple_range, sensitivity>>

\* the caller builds a new ExitAssumptions with the same terms
NewExitAssumptions ==
    /\ \E c \in CallerRevenueCagrValues :
         exit_assumptions' = Some([Get(exit_assumptions) EXCEPT !.revenue_cagr = c])
    /\ UNCHANGED <<leverage_vars, cell_vars, session_vars, exit_model, npf_version, capital_inputs,
                   operating_assumptions,
                   debt_assumptions, fcf_series, cap_structure, operating,
                   debt, results, prev_results, growth_range,
                   exit_multiple_range, sensitivity>>

NextEngine ==
    \/ RunEngine
    \/ KeepResults
    \/ NewDebtAssumptions
    \/ NewExitAssumptions

SpecEngine == InitEngine /\ [][NextEngine]_vars

\* the bundle of the last run, when it returned one
Returned == results # Absent /\ ~Get(results).raised
Bundle == Get(Get(results).results)

\* the fields two runs are compared on
ComparedOutputs(outcome) ==
    IF outcome.raised THEN <<>>
    ELSE LET b == Get(outcome.results)
         IN  <<b.irr, b.moic, b.exit_equity_value,
               b.sources_uses.enterprise_value, b.sources_uses.debt>>

\* C5: two engine runs with identical input tuples give identical irr, moic,
\* exit_equity_value, enterprise_value and debt, whatever earlier runs left
\* in the assumption objects.
DeterministicRuns ==
    (/\ results # Absent
     /\ prev_results # Absent
     /\ Get(results).inputs = Get(prev_results).inputs)
    => /\ Get(results).raised = Get(prev_results).raised
       /\ ComparedOutputs(Get(results)) = ComparedOutputs(Get(prev_results))

\* two returned runs on the same input tuple, one on a DebtAssumptions object
\* an earlier run had written to and one on an object the caller had filled
\* with another initial_debt
DeterministicRunsWitness ==
    /\ Returned
    /\ prev_results # Absent
    /\ ~Get(prev_results).raised
    /\ Get(results).inputs = Get(prev_results).inputs
    /\ Get(results).initial_debt_before # Get(prev_results).initial_debt_before
    /\ Get(results).initial_debt_before # Zero
    /\ Get(prev_results).initial_debt_before # Zero
    /\ Bundle.irr.kind = "rate"
    /\ Bundle.sources_uses.debt # Zero

\* C6: for every engine run with hold period N >= 1 the equity cash-flow
\* vector has N + 1 entries: -equity_invested first, +exit_equity_value
\* last, and zeros in between.
EquityCashflowShape ==
    Returned =>
        LET cf == Bundle.equity_cashflows
            N == Len(Get(results).inputs.operating.revenue_growth_rates)
        IN  N >= 1 =>
              /\ Bundle.hold_period = N
              /\ Len(cf) = N + 1
              /\ cf[1] = RNeg(Bundle.equity_invested)
              /\ cf[N + 1] = Bundle.exit_equity_value
              /\ \A i \in 2..N : cf[i] = Zero

\* a run over more than one year whose two flows are both non-zero
EquityCashflowShapeWitness ==
    /\ Returned
    /\ Bundle.hold_period >= 2
    /\ Len(Bundle.equity_cashflows) = Bundle.hold_period + 1
    /\ Bundle.equity_invested # Zero
    /\ Bundle.exit_equity_value # Zero
    /\ Bundle.equity_cashflows[2] = Zero

\* C7: MOIC is exit_equity_value / equity_invested when equity_invested > 0
\* and is a missing value, not a number, when equity_invested <= 0.
MoicMissingWithoutEquity ==
    Returned =>
        IF RGt(Bundle.equity_invested, Zero)
        THEN Bundle.moic = RDiv(Bundle.exit_equity_value, Bundle.equity_invested)
        ELSE Bundle.moic = PyNone

\* C8: when the equity cash flows have no real IRR root (positive equity
\* invested, exit equity value <= 0) the run returns and its irr is None,
\* not a number and not nan.
IrrNoneWithoutRoot ==
    results # Absent =>
        LET inputs == Get(results).inputs
        IN  (/\ Len(inputs.operating.revenue_growth_rates) >= 1
             /\ RGt(CapitalStructureCalculate(inputs.capital).equity, Zero))
            => /\ ~Get(results).raised
               /\ RLe(Bundle.exit_equity_value, Zero) => Bundle.irr = IrrNone

\* the debt of the capital structure of the last run
CapitalDebt ==
    RMul(Get(results).inputs.capital.entry_ebitda,
         Get(results).inputs.capital.debt_to_ebitda)

\* C28: in every engine run the schedule starts from the capital structure's
\* debt, entry_ebitda * debt_to_ebitda, whatever initial_debt the caller put
\* in the debt assumptions: it is the first beginning debt and the base of
\* scheduled amortization; exit_debt is the schedule's last ending debt and
\* exit_equity_value is final-year EBITDA * exit multiple - that debt.
ScheduleStartsFromCapitalDebt ==
    Returned =>
        LET schedule == Bundle.debt_schedule
            proj == Bundle.operating_projection
            last_debt == schedule[Len(schedule)].ending_debt
        IN  /\ schedule[1].beginning_debt = CapitalDebt
            /\ \A t \in 1..Len(schedule) :
                 schedule[t].scheduled_amort
                   = PyMin(RMul(CapitalDebt, Get(results).inputs.amortization_pct),
                           schedule[t].beginning_debt)
            /\ Bundle.exit_results.exit_debt = last_debt
            /\ Bundle.exit_equity_value
                 = RSub(RMul(proj[Len(proj)].ebitda,
                             Bundle.exit_results.exit_multiple),
                        last_debt)

\* a two-year run on a DebtAssumptions object the caller had filled with
\* another initial_debt, whose debt is paid down in both years
ScheduleStartsFromCapitalDebtWitness ==
    /\ Returned
    /\ RGt(CapitalDebt, Zero)
    /\ Get(results).initial_debt_before # CapitalDebt
    /\ Get(results).initial_debt_before # Zero
    /\ Len(Bundle.debt_schedule) = 2
    /\ RLt(Bundle.debt_schedule[1].ending_debt, CapitalDebt)
    /\ RLt(Bundle.debt_schedule[2].ending_debt,
           Bundle.debt_schedule[1].ending_debt)
    /\ RGt(Bundle.exit_results.exit_debt, Zero)

(***************************************************************************)
(* Sensitivity grids                                                       *)
(***************************************************************************)
GridCapitalDomain ==
    { CapitalStructureInputs(R(16), R(8), R(4), Q(1, 32), Q(1, 32), Zero) }

\* growth_range arguments; None stands for an entry that is not a number
GrowthRanges ==
    { <<>>, <<Q(1, 4)>>, <<Q(-1, 2), Zero, Q(1, 4)>>, <<PyNone, Q(1, 4)>>,
      <<Q(1, 4), PyNone>>, <<Q(-3, 2), Zero>> }

\* exit_multiple_range arguments
ExitMultipleRanges ==
    { <<R(10)>>, <<R(6), R(8), R(10)>>, <<R(8), PyNone>>, <<PyNone, R(3), R(10)>> }

InitGrid ==
    /\ npf_version \in {"1.0", "1.1"}
    /\ capital_inputs \in { Some(c) : c \in GridCapitalDomain }
    /\ operating_assumptions \in { Some(a) : a \in EngineOperatingDomain }
    /\ debt_assumptions \in { Some(a) : a \in EngineDebtDomain }
    /\ exit_assumptions \in { Some(a) : a \in EngineExitDomain }
    /\ fcf_series = <<>>
    /\ cap_structure = Absent
    /\ operating = Absent
    /\ debt = Absent
    /\ results = Absent
    /\ prev_results = Absent
    /\ growth_range \in GrowthRanges
    /\ exit_multiple_range \in ExitMultipleRanges
    /\ sensitivity = Absent
    /\ IdleLeverage
    /\ IdleCells
    /\ IdleSession
    /\ exit_model = Absent

\* sens_df = build_sensitivity_grid(capital_inputs, operating_assumptions,
\*               debt_assumptions, exit_assumptions, growth_range,
\*               exit_multiple_range)
BuildSensitivityGrid ==
    LET grid == BuildGrid(Get(capital_inputs), Get(operating_assumptions),
                          Get(debt_assumptions), Get(exit_assumptions),
                          growth_range, exit_multiple_range, npf_version)
    IN  /\ sensitivity' = Some([raised |-> grid.raised, table |-> grid.table,
                                base_debt_before |-> Get(debt_assumptions)])
        /\ debt_assumptions' = Some(grid.debt_assumptions)
        /\ UNCHANGED <<leverage_vars, cell_vars, session_vars, exit_model, npf_version, capital_inputs,
                       operating_assumptions,
                       exit_assumptions, fcf_series, cap_structure, operating,
                       debt, results, prev_results, growth_range,
                       exit_multiple_range>>

NextGrid == BuildSensitivityGrid

SpecGrid == InitGrid /\ [][NextGrid]_vars

\* the (growth, exit multiple) pair of row k, in loop order
PairOfRow(k) ==
    [growth |-> growth_range[((k - 1) \div Len(exit_multiple_range)) + 1],
     exit_mult |-> exit_multiple_range[((k - 1) % Len(exit_multiple_range)) + 1]]

\* a cell's engine run on its own, from the base objects as they were
\* before the grid call
CellAlone(g, m) ==
    RunModel(Get(capital_inputs),
             [Get(operating_assumptions) EXCEPT !.revenue_growth_rates =
                 [i \in 1..Len(Get(operating_assumptions).revenue_growth_rates) |-> g]],
             Get(sensitivity).base_debt_before,
             [Get(exit_assumptions) EXCEPT !.exit_mode = "fixed",
                                           !.fixed_exit_multiple = m],
             npf_version)

\* C9: a cell whose engine run fails gets irr = None and moic = None and does
\* not abort the grid: the table has one row per pair, in order, and every
\* row holds what a grid of that single pair holds.
GridSurvivesCellFailure ==
    sensitivity # Absent =>
        /\ ~Get(sensitivity).raised
        /\ Len(Get(sensitivity).table) = Len(growth_range) * Len(exit_multiple_range)
        /\ \A k \in 1..Len(Get(sensitivity).table) :
             LET row == Get(sensitivity).table[k]
                 pair == PairOfRow(k)
                 single == BuildGrid(Get(capital_inputs),
                                     Get(operating_assumptions),
                                     Get(sensitivity).base_debt_before,
                                     Get(exit_assumptions),
                                     <<pair.growth>>, <<pair.exit_mult>>,
                                     npf_version)
             IN  /\ row.growth_rate = pair.growth
                 /\ row.exit_multiple = pair.exit_mult
                 /\ CellAlone(pair.growth, pair.exit_mult).raised
                      => row.irr = IrrNone /\ row.moic = PyNone
                 /\ ~single.raised
                 /\ row = single.table[1]

\* a grid in which a failing cell is followed by a cell with a rate
GridSurvivesCellFailureWitness ==
    /\ sensitivity # Absent
    /\ ~Get(sensitivity).raised
    /\ \E k \in 1..(Len(Get(sensitivity).table) - 1) :
         /\ CellAlone(PairOfRow(k).growth, PairOfRow(k).exit_mult).raised
         /\ Get(sensitivity).table[k].irr = IrrNone
         /\ Get(sensitivity).table[k].moic = PyNone
         /\ Get(sensitivity).table[k + 1].irr.kind = "rate"
         /\ Get(sensitivity).table[k + 1].moic # PyNone

\* C10: every cell holds the (irr, moic) of a standalone engine run with the
\* base capital, debt and other operating assumptions, the growth applied to
\* every projection year and exit mode fixed at the cell's multiple, whatever
\* exit mode and growth rates the base carried; the table has
\* len(growth_range) * len(exit_multiple_range) rows.
GridCellsAreStandaloneRuns ==
    (sensitivity # Absent /\ ~Get(sensitivity).raised) =>
        /\ Len(Get(sensitivity).table) = Len(growth_range) * Len(exit_multiple_range)
        /\ \A k \in 1..Len(Get(sensitivity).table) :
             LET row == Get(sensitivity).table[k]
                 alone == CellAlone(PairOfRow(k).growth, PairOfRow(k).exit_mult)
             IN  ~alone.raised =>
                   /\ row.irr = Get(alone.results).irr
                   /\ row.moic = Get(alone.results).moic

\* a grid over a base in another exit mode and with uneven growth, whose
\* cells differ from one another
GridCellsAreStandaloneRunsWitness ==
    /\ sensitivity # Absent
    /\ ~Get(sensitivity).raised
    /\ Get(exit_assumptions).exit_mode # "fixed"
    /\ Len(Get(operating_assumptions).revenue_growth_rates) = 2
    /\ Get(operating_assumptions).revenue_growth_rates[1]
         # Get(operating_assumptions).revenue_growth_rates[2]
    /\ Len(Get(sensitivity).table) = 9
    /\ \A k \in 1..9 : Get(sensitivity).table[k].irr.kind # "None"
    /\ Get(sensitivity).table[1].moic # Get(sensitivity).table[2].moic
    /\ Get(sensitivity).table[1].moic # Get(sensitivity).table[4].moic

\* positive base revenue and entry EBITDA, non-negative EBITDA margin
ValidGridBase ==
    /\ RGt(Get(operating_assumptions).base_revenue, Zero)
    /\ RGt(Get(capital_inputs).entry_ebitda, Zero)
    /\ RGe(Get(operating_assumptions).ebitda_margin, Zero)

\* rows j and k of the table lie in the same growth row
SameGrowthRow(j, k) ==
    (j - 1) \div Len(exit_multiple_range) = (k - 1) \div Len(exit_multiple_range)

\* C11: in the grid of a valid base, within every growth row the MOIC does
\* not decrease as the exit multiple increases.
GridMoicMonotoneInExitMultiple ==
    (sensitivity # Absent /\ ~Get(sensitivity).raised /\ ValidGridBase) =>
        \A j, k \in 1..Len(Get(sensitivity).table) :
            LET rj == Get(sensitivity).table[j]
                rk == Get(sensitivity).table[k]
            IN  (/\ SameGrowthRow(j, k)
                 /\ rj.moic # PyNone /\ rk.moic # PyNone
                 /\ rj.exit_multiple # PyNone /\ rk.exit_multiple # PyNone
                 /\ RLe(rj.exit_multiple, rk.exit_multiple))
                => RLe(rj.moic, rk.moic)

(***************************************************************************)
(* Input validation (src/utils/formatters.py)                              *)
(***************************************************************************)
\* validate_model_inputs: the is_valid member of the returned tuple
ValidateModelInputs(entry_ebitda, entry_multiple, debt_to_ebitda, interest_rate, growth_rate, holding_period_years, exit_multiple) ==
    /\ ~RLe(entry_ebitda, Zero)
    /\ ~RLt(entry_multiple, One)
    /\ ~RLt(debt_to_ebitda, Zero)
    /\ ~(RLt(interest_rate, Zero) \/ RGt(interest_rate, R(100)))
    /\ ~(RLt(growth_rate, R(-50)) \/ RGt(growth_rate, R(100)))
    /\ ~(holding_period_years < 1 \/ holding_period_years > 20)
    /\ ~RLt(exit_multiple, One)

\* the inputs of the last engine run pass validate_model_inputs
ValidRunInputs ==
    LET inputs == Get(results).inputs
        rates == inputs.operating.revenue_growth_rates
    IN  Len(rates) >= 1 /\ \A i \in 1..Len(rates) :
            ValidateModelInputs(inputs.capital.entry_ebitda,
                                inputs.capital.entry_multiple,
                                inputs.capital.debt_to_ebitda,
                                inputs.interest_rate, rates[i], Len(rates),
                                inputs.fixed_exit_multiple)

\* C12: an engine call on invalid input (entry EBITDA <= 0, entry multiple
\* below 1.0, negative debt-to-EBITDA, rates out of bounds) raises; no
\* result bundle comes out of it.
InvalidInputRejected ==
    (results # Absent /\ ~ValidRunInputs) => Get(results).raised

(***************************************************************************)
(* Historical analysis (historical_analysis.py)                            *)
(***************************************************************************)
\* HistoricalAnalyzer.calculate_cagr
CalculateCagr(values) ==
    IF Len(values) < 2 THEN PyNone
    ELSE LET start_value == values[1]
             end_value == values[Len(values)]
             periods == Len(values) - 1
         IN  IF RLe(start_value, Zero) \/ RLe(end_value, Zero) THEN PyNone
             ELSE RSub(PowRoot(RDiv(end_value, start_value), periods), One)

\* proj['revenue'] of the last run's projection
RevenueSeries ==
    [t \in 1..Len(Bundle.operating_projection) |->
        Bundle.operating_projection[t].revenue]

\* the series has fewer than 2 entries or starts at a value <= 0
CagrUndefined(values) ==
    Len(values) < 2 \/ RLe(values[1], Zero)

\* C13: on a series with fewer than 2 periods or a start value <= 0, both
\* CAGR computations give a missing value (None or nan) and never a number.
CagrSignalsUndefined ==
    (Returned /\ CagrUndefined(RevenueSeries)) =>
        /\ CalculateCagr(RevenueSeries) = PyNone
        /\ RevenueCagr(Bundle.operating_projection) \in {PyNone, NaN}

(***************************************************************************)
(* Leverage ratios and risk flags on their own                              *)
(***************************************************************************)
MaxLeverageYears == 2

LeverageDebtDomain ==
    { DebtAssumptions(d, r, am, en, Q(1, 2)) :
        d \in {Zero, R(96), R(135)}, r \in {Zero, Q(1, 8)},
        am \in {Zero, Q(1, 4), One}, en \in BOOLEAN }

LeverageFcfValues == {Zero, R(16)}

EbitdaValues == {R(-8), Zero, R(16), R(18)}

\* a debt model over at least one year, and one EBITDA per year
InitLeverage ==
    /\ npf_version = "1.0"
    /\ capital_inputs = Absent
    /\ operating_assumptions = Absent
    /\ debt_assumptions \in { Some(a) : a \in LeverageDebtDomain }
    /\ exit_assumptions = Absent
    /\ fcf_series \in SeqsUpTo(LeverageFcfValues, MaxLeverageYears) \ {<<>>}
    /\ cap_structure = Absent
    /\ operating = Absent
    /\ debt = Absent
    /\ IdleEngine
    /\ ebitda_series \in { e \in SeqsUpTo(EbitdaValues, MaxLeverageYears) :
                              Len(e) = Len(fcf_series) }
    /\ leverage_ratios = Absent
    /\ risk_flags = Absent
    /\ IdleCells
    /\ IdleSession
    /\ exit_model = Absent

\* debt = DebtModel(debt_assumptions, fcf_series)
NewLeveredDebtModel ==
    /\ debt = Absent
    /\ debt' = Some(BuildSchedule(Get(debt_assumptions), fcf_series))
    /\ UNCHANGED <<leverage_vars, cell_vars, session_vars, exit_model, npf_version, capital_inputs,
                   operating_assumptions, debt_assumptions, exit_assumptions,
                   fcf_series, cap_structure, operating, results, prev_results,
                   growth_range, exit_multiple_range, sensitivity>>

\* leverage_ratios = debt.get_leverage_ratios(ebitda_series)
LeverageRatiosCall ==
    /\ debt # Absent
    /\ leverage_ratios' = Some(GetLeverageRatios(Get(debt), ebitda_series))
    /\ UNCHANGED <<ebitda_series, risk_flags, cell_vars, session_vars, exit_model, npf_version,
                   capital_inputs, operating_assumptions, debt_assumptions,
                   exit_assumptions, fcf_series, cap_structure, operating, debt,
                   results, prev_results, growth_range, exit_multiple_range,
                   sensitivity>>

\* risk_flags = debt.get_risk_flags(ebitda_series)
RiskFlagsCall ==
    /\ debt # Absent
    /\ risk_flags' = Some(GetRiskFlags(Get(debt), ebitda_series))
    /\ UNCHANGED <<ebitda_series, leverage_ratios, cell_vars, session_vars, exit_model, npf_version,
                   capital_inputs, operating_assumptions, debt_assumptions,
                   exit_assumptions, fcf_series, cap_structure, operating, debt,
                   results, prev_results, growth_range, exit_multiple_range,
                   sensitivity>>

NextLeverage ==
    \/ NewLeveredDebtModel
    \/ LeverageRatiosCall
    \/ RiskFlagsCall

SpecLeverage == InitLeverage /\ [][NextLeverage]_vars

\* C14: in every year of the leverage table, debt_to_ebitda times the
\* year's EBITDA is the schedule's beginning-of-year balance (the quotient
\* is inf, -inf or nan when the EBITDA is 0), whatever the ending balance.
LeverageOnBeginningDebt ==
    leverage_ratios # Absent =>
        /\ Len(Get(leverage_ratios)) = Len(Get(debt))
        /\ \A t \in 1..Len(Get(leverage_ratios)) :
             LET row == Get(leverage_ratios)[t]
             IN  /\ row.beginning_debt = Get(debt)[t].beginning_debt
                 /\ row.ebitda = ebitda_series[t]
                 /\ IF ebitda_series[t] = Zero
                    THEN row.debt_to_ebitda =
                            <<Sign(Get(debt)[t].beginning_debt[1]), 0>>
                    ELSE /\ IsFinite(row.debt_to_ebitda)
                         /\ RMul(row.debt_to_ebitda, ebitda_series[t])
                              = Get(debt)[t].beginning_debt

\* a table with a year in which debt was paid down and the ratio is a
\* number other than ending debt over EBITDA
LeverageOnBeginningDebtWitness ==
    /\ leverage_ratios # Absent
    /\ \E t \in 1..Len(Get(leverage_ratios)) :
         /\ ebitda_series[t] # Zero
         /\ Get(debt)[t].ending_debt # Get(debt)[t].beginning_debt
         /\ Get(leverage_ratios)[t].debt_to_ebitda = Q(135, 16)

\* C15: in every year, interest_coverage times the interest is the EBITDA
\* when the interest is not 0, interest_coverage is the EBITDA itself when
\* the interest is 0, and the ratio is finite.
CoverageWithUnitDivisor ==
    leverage_ratios # Absent =>
        \A t \in 1..Len(Get(leverage_ratios)) :
            LET row == Get(leverage_ratios)[t]
                interest == Get(debt)[t].interest
            IN  /\ IsFinite(row.interest_coverage)
                /\ interest # Zero =>
                     RMul(row.interest_coverage, interest) = ebitda_series[t]
                /\ interest = Zero => row.interest_coverage = ebitda_series[t]

\* a table with a year of interest and, the debt repaid, a later year of
\* zero interest and positive EBITDA
CoverageWithUnitDivisorWitness ==
    /\ leverage_ratios # Absent
    /\ \E t, u \in 1..Len(Get(leverage_ratios)) :
         /\ Get(debt)[t].interest = Zero
         /\ Get(leverage_ratios)[t].interest_coverage = R(18)
         /\ Get(debt)[u].interest # Zero
         /\ Get(leverage_ratios)[u].interest_coverage = Q(3, 2)

\* the leverage table the flags of the last get_risk_flags call were read from
FlaggedTable == GetLeverageRatios(Get(debt), ebitda_series)

\* C16: high_leverage is true exactly when some year's debt_to_ebitda is
\* strictly above 6, low_coverage exactly when some year's interest_coverage
\* is strictly below 1.5, max_debt_to_ebitda is a year's ratio that no year
\* exceeds and min_interest_coverage a year's coverage that no year is below
\* (years whose ratio is nan are passed over).
RiskFlagsFromLeverageTable ==
    risk_flags # Absent =>
        LET flags == Get(risk_flags)
            years == 1..Len(FlaggedTable)
            ratio(t) == FlaggedTable[t].debt_to_ebitda
            coverage(t) == FlaggedTable[t].interest_coverage
        IN  /\ flags.high_leverage <=> \E t \in years : FloatGt(ratio(t), R(6))
            /\ flags.low_coverage <=> \E t \in years : FloatLt(coverage(t), Q(3, 2))
            /\ IF \A t \in years : ratio(t) = NaN
               THEN flags.max_debt_to_ebitda = NaN
               ELSE /\ \E t \in years : flags.max_debt_to_ebitda = ratio(t)
                    /\ flags.max_debt_to_ebitda # NaN
                    /\ \A t \in years : ~FloatGt(ratio(t), flags.max_debt_to_ebitda)
            /\ \E t \in years : flags.min_interest_coverage = coverage(t)
            /\ \A t \in years : ~FloatLt(coverage(t), flags.min_interest_coverage)

\* flags of a schedule whose highest ratio is exactly 6.0 and whose lowest
\* coverage is below 1.5
RiskFlagsFromLeverageTableWitness ==
    /\ risk_flags # Absent
    /\ Len(FlaggedTable) = 2
    /\ ~Get(risk_flags).high_leverage
    /\ Get(risk_flags).max_debt_to_ebitda = R(6)
    /\ Get(risk_flags).low_coverage
    /\ Get(risk_flags).min_interest_coverage = Q(4, 3)

(***************************************************************************)
(* Exit model on its own                                                   *)
(***************************************************************************)
\* revenue_cagr as a caller or the engine writes it
RevenueCagrValues == {NaN, Q(-1, 2), Zero, Q(1, 4)}

\* exit_mode is a plain string: nothing checks it against the three modes
ExitModes == {"fixed", "mean_reversion", "growth_adjusted", "other"}

ExitDomain ==
    { ExitAssumptions(mode, fixed, entry, industry, hold, cagr, factor) :
        mode \in ExitModes, fixed \in {R(3), R(10)}, entry \in {R(2), R(10)},
        industry \in {R(6), R(12)}, hold \in {1, 5},
        cagr \in RevenueCagrValues, factor \in {R(-1), Zero, Q(1, 2)} }

InitExit ==
    /\ npf_version = "1.0"
    /\ capital_inputs = Absent
    /\ operating_assumptions = Absent
    /\ debt_assumptions = Absent
    /\ exit_assumptions \in { Some(a) : a \in ExitDomain }
    /\ fcf_series = <<>>
    /\ cap_structure = Absent
    /\ operating = Absent
    /\ debt = Absent
    /\ IdleEngine
    /\ IdleLeverage
    /\ IdleCells
    /\ IdleSession
    /\ exit_model = Absent

\* self.exit_assumptions.revenue_cagr = operating.get_metrics_summary()['revenue_cagr']
WriteRevenueCagr ==
    /\ \E c \in RevenueCagrValues :
         exit_assumptions' = Some([Get(exit_assumptions) EXCEPT !.revenue_cagr = c])
    /\ UNCHANGED <<leverage_vars, cell_vars, session_vars, exit_model, npf_version,
                   capital_inputs, operating_assumptions, debt_assumptions,
                   fcf_series, cap_structure, operating, debt, results,
                   prev_results, growth_range, exit_multiple_range, sensitivity>>

\* exit_model = ExitModel(self.exit_assumptions): the constructor resolves
\* the multiple from the assumptions as they are at that moment
NewExitModel ==
    /\ exit_model' = Some([exit_multiple |-> CalculateExitMultiple(Get(exit_assumptions)),
                           assumptions |-> Get(exit_assumptions)])
    /\ UNCHANGED <<leverage_vars, cell_vars, session_vars, npf_version, capital_inputs,
                   operating_assumptions, debt_assumptions, exit_assumptions,
                   fcf_series, cap_structure, operating, debt, results,
                   prev_results, growth_range, exit_multiple_range, sensitivity>>

NextExit ==
    \/ WriteRevenueCagr
    \/ NewExitModel

SpecExit == InitExit /\ [][NextExit]_vars

\* the assumptions an ExitModel was constructed from, and its multiple
Resolved == Get(exit_model).assumptions
ResolvedMultiple == Get(exit_model).exit_multiple

\* C17: in growth_adjusted mode the multiple is the larger of 5.0 and
\* entry_multiple + (revenue_cagr * 100 - 5) * growth_multiple_factor (5.0
\* when the CAGR is nan), so it is a number and never below 5.0.
GrowthAdjustedFloor ==
    (exit_model # Absent /\ Resolved.exit_mode = "growth_adjusted") =>
        /\ IsFinite(ResolvedMultiple)
        /\ RGe(ResolvedMultiple, R(5))
        /\ Resolved.revenue_cagr = NaN => ResolvedMultiple = R(5)
        /\ Resolved.revenue_cagr # NaN =>
             LET adjusted ==
                   RAdd(Resolved.entry_multiple,
                        RMul(RSub(RMul(Resolved.revenue_cagr, R(100)), R(5)),
                             Resolved.growth_multiple_factor))
             IN  ResolvedMultiple = IF RLt(adjusted, R(5)) THEN R(5) ELSE adjusted

\* a growth-adjusted multiple held at the floor by a negative adjustment
GrowthAdjustedFloorWitness ==
    /\ exit_model # Absent
    /\ Resolved.exit_mode = "growth_adjusted"
    /\ Resolved.revenue_cagr = Q(-1, 2)
    /\ Resolved.growth_multiple_factor = Q(1, 2)
    /\ Resolved.entry_multiple = R(10)
    /\ ResolvedMultiple = R(5)

\* C18: in fixed mode the multiple is fixed_exit_multiple, whatever the
\* other fields hold and whatever was written into revenue_cagr before the
\* ExitModel was constructed.
FixedModeMultiple ==
    (exit_model # Absent /\ Resolved.exit_mode = "fixed") =>
        ResolvedMultiple = Resolved.fixed_exit_multiple

\* a fixed-mode multiple that differs from the entry and industry multiples,
\* resolved after revenue_cagr was overwritten
FixedModeMultipleWitness ==
    /\ exit_model # Absent
    /\ Resolved.exit_mode = "fixed"
    /\ ResolvedMultiple = R(3)
    /\ Resolved.entry_multiple = R(10)
    /\ Resolved.industry_multiple = R(12)
    /\ Resolved.revenue_cagr = Q(1, 4)
    /\ Get(exit_assumptions).revenue_cagr = NaN

\* C19: in mean_reversion mode the multiple is industry_multiple for every
\* entry multiple, and the same for every hold_period.
MeanReversionIsFull ==
    (exit_model # Absent /\ Resolved.exit_mode = "mean_reversion") =>
        /\ ResolvedMultiple = Resolved.industry_multiple
        /\ \A hold \in {1, 5} :
             CalculateExitMultiple([Resolved EXCEPT !.hold_period = hold])
               = ResolvedMultiple

\* a mean-reversion multiple away from the entry multiple at a hold of 5
MeanReversionIsFullWitness ==
    /\ exit_model # Absent
    /\ Resolved.exit_mode = "mean_reversion"
    /\ Resolved.hold_period = 5
    /\ Resolved.entry_multiple = R(2)
    /\ ResolvedMultiple = R(12)

(***************************************************************************)
(* Engine runs of the grid's cells, run side by side                       *)
(*                                                                         *)
(* Each cell is one LBOEngine(...) call of build_sensitivity_grid, cut     *)
(* into the steps of _run_model that write or read an assumption object:   *)
(*   inject   - steps 1-2 and the write to debt_assumptions.initial_debt   *)
(*   schedule - DebtModel(self.debt_assumptions, fcf_series)               *)
(*   cagr     - the write to exit_assumptions.revenue_cagr                 *)
(*   exit     - ExitModel(...) and calculate_exit_value                    *)
(*   returns  - irr and moic                                               *)
(* base_debt_assumptions is one object handed to every cell's engine; the  *)
(* operating and exit assumptions are built per cell.                      *)
(***************************************************************************)
\* the (growth_range, exit_multiple_range) arguments of the concurrent grids
ConcurrentRanges ==
    { << <<Q(-1, 2), Q(1, 4)>>, <<R(6)>> >>,
      << <<Q(1, 4)>>, <<R(6), R(10), R(12)>> >>,
      << <<Q(-1, 2), Zero, Q(1, 4)>>, <<R(10)>> >>,
      << <<PyNone, Q(1, 4)>>, <<R(6), R(10)>> >> }

ConcurrentOperatingDomain ==
    { OperatingAssumptions(R(128), <<Q(1, 4), Q(-1, 2)>>, Q(1, 4), Q(1, 4),
                           Q(1, 8), Q(1, 8), Q(1, 8)) }

ConcurrentDebtDomain ==
    { DebtAssumptions(d, Q(1, 8), Q(1, 8), TRUE, Q(1, 2)) :
        d \in CallerInitialDebtValues }

ConcurrentExitDomain ==
    { ExitAssumptions("growth_adjusted", R(8), R(8), R(6), 5,
                      DefaultRevenueCagr, Q(1, 2)) }

InitConcurrent ==
    /\ npf_version \in {"1.0", "1.1"}
    /\ capital_inputs \in { Some(c) : c \in GridCapitalDomain }
    /\ operating_assumptions \in { Some(a) : a \in ConcurrentOperatingDomain }
    /\ debt_assumptions \in { Some(a) : a \in ConcurrentDebtDomain }
    /\ exit_assumptions \in { Some(a) : a \in ConcurrentExitDomain }
    /\ fcf_series = <<>>
    /\ cap_structure = Absent
    /\ operating = Absent
    /\ debt = Absent
    /\ results = Absent
    /\ prev_results = Absent
    /\ \E ranges \in ConcurrentRanges :
         /\ growth_range = ranges[1]
         /\ exit_multiple_range = ranges[2]
    /\ sensitivity = Absent
    /\ IdleLeverage
    /\ IdleCells
    /\ IdleSession
    /\ exit_model = Absent

\* the number of cells of the grid
CellCount == Len(growth_range) * Len(exit_multiple_range)

\* a cell's engine before its first step
CellAtStart ==
    [pc |-> "inject", read_from |-> 0, initial_debt_read |-> PyNone,
     final_debt |-> Zero, revenue_cagr |-> DefaultRevenueCagr,
     exit_equity |-> Zero, irr |-> IrrNone, moic |-> PyNone]

\* except: irr = None; moic = None
CellFailed(run) == [run EXCEPT !.pc = "done", !.irr = IrrNone, !.moic = PyNone]

\* the objects of cell k: build_sensitivity_grid constructs them per cell
CellOperating(k) ==
    GridCellOperating(Get(operating_assumptions), PairOfRow(k).growth)
CellExit(k) == GridCellExit(Get(exit_assumptions), PairOfRow(k).exit_mult)
CellProjection(k) == BuildProjection(CellOperating(k))
CellSourcesUses == CapitalStructureCalculate(Get(capital_inputs))

\* the variables no cell step writes
CellFrame ==
    UNCHANGED <<leverage_vars, session_vars, exit_model, npf_version, capital_inputs,
                operating_assumptions, exit_assumptions, fcf_series,
                cap_structure, operating, debt, results, prev_results,
                growth_range, exit_multiple_range, sensitivity>>

\* the caller starts one engine per (growth, exit multiple) pair
StartCells ==
    /\ cells = Absent
    /\ cells' = Some([base_debt_before |-> Get(debt_assumptions),
                      runs |-> [k \in 1..CellCount |-> CellAtStart]])
    /\ UNCHANGED <<debt_assumptions, last_writer>>
    /\ CellFrame

\* the runs with cell k's run replaced
WithRun(k, run) == Some([Get(cells) EXCEPT !.runs[k] = run])

\* cell k, steps 1-3a: capital structure, operating model, and
\* self.debt_assumptions.initial_debt = sources_uses['debt']
CellInjectDebt(k) ==
    /\ cells # Absent
    /\ Get(cells).runs[k].pc = "inject"
    /\ IF ProjectionRaises(CellOperating(k))
       THEN /\ cells' = WithRun(k, CellFailed(Get(cells).runs[k]))
            /\ UNCHANGED <<debt_assumptions, last_writer>>
       ELSE /\ debt_assumptions' =
                 Some(InjectDebt(Get(debt_assumptions), CellSourcesUses))
            /\ last_writer' = k
            /\ cells' = WithRun(k, [Get(cells).runs[k] EXCEPT !.pc = "schedule"])
    /\ CellFrame

\* cell k, step 3b: debt = DebtModel(self.debt_assumptions, fcf_series),
\* then final_ebitda and final_debt
CellBuildSchedule(k) ==
    /\ cells # Absent
    /\ Get(cells).runs[k].pc = "schedule"
    /\ LET schedule == BuildSchedule(Get(debt_assumptions),
                                     GetFcfSeries(CellProjection(k)))
       IN  cells' = WithRun(k,
               IF Len(CellProjection(k)) = 0
               THEN CellFailed(Get(cells).runs[k])
               ELSE [Get(cells).runs[k] EXCEPT
                        !.pc = "cagr",
                        !.read_from = last_writer,
                        !.initial_debt_read = Get(debt_assumptions).initial_debt,
                        !.final_debt = GetFinalDebt(schedule)])
    /\ UNCHANGED <<debt_assumptions, last_writer>>
    /\ CellFrame

\* cell k, step 4a: self.exit_assumptions.revenue_cagr = ...['revenue_cagr']
CellWriteCagr(k) ==
    /\ cells # Absent
    /\ Get(cells).runs[k].pc = "cagr"
    /\ cells' = WithRun(k, [Get(cells).runs[k] EXCEPT
                               !.pc = "exit",
                               !.revenue_cagr = RevenueCagr(CellProjection(k))])
    /\ UNCHANGED <<debt_assumptions, last_writer>>
    /\ CellFrame

\* cell k, step 4b: ExitModel(self.exit_assumptions).calculate_exit_value(...)
CellResolveExit(k) ==
    /\ cells # Absent
    /\ Get(cells).runs[k].pc = "exit"
    /\ LET run == Get(cells).runs[k]
           ea == [CellExit(k) EXCEPT !.revenue_cagr = run.revenue_cagr]
           exit_multiple == CalculateExitMultiple(ea)
       IN  cells' = WithRun(k,
               IF ExitValueRaises(exit_multiple) THEN CellFailed(run)
               ELSE [run EXCEPT
                        !.pc = "returns",
                        !.exit_equity =
                            CalculateExitValue(exit_multiple,
                                               GetFinalEbitda(CellProjection(k)),
                                               run.final_debt).exit_equity_value])
    /\ UNCHANGED <<debt_assumptions, last_writer>>
    /\ CellFrame

\* cell k, step 5: the cash-flow vector, irr and moic
CellComputeReturns(k) ==
    /\ cells # Absent
    /\ Get(cells).runs[k].pc = "returns"
    /\ LET run == Get(cells).runs[k]
           equity_invested == CellSourcesUses.equity
           years == Len(GetFcfSeries(CellProjection(k)))
           equity_cashflows == EquityCashflows(equity_invested, years,
                                               run.exit_equity)
       IN  cells' = WithRun(k, [run EXCEPT
                                  !.pc = "done",
                                  !.irr = SolveIrr(equity_cashflows, npf_version),
                                  !.moic = Moic(run.exit_equity, equity_invested)])
    /\ UNCHANGED <<debt_assumptions, last_writer>>
    /\ CellFrame

NextConcurrent ==
    \/ StartCells
    \/ \E k \in 1..CellCount : CellInjectDebt(k)
    \/ \E k \in 1..CellCount : CellBuildSchedule(k)
    \/ \E k \in 1..CellCount : CellWriteCagr(k)
    \/ \E k \in 1..CellCount : CellResolveExit(k)
    \/ \E k \in 1..CellCount : CellComputeReturns(k)

SpecConcurrent == InitConcurrent /\ [][NextConcurrent]_vars

\* every cell's engine has returned or raised
AllCellsDone ==
    /\ cells # Absent
    /\ \A k \in 1..CellCount : Get(cells).runs[k].pc = "done"

\* the table build_sensitivity_grid gives when it runs the cells one after
\* the other
SequentialTable ==
    BuildGrid(Get(capital_inputs), Get(operating_assumptions),
              Get(cells).base_debt_before, Get(exit_assumptions),
              growth_range, exit_multiple_range, npf_version).table

\* every cell holds the sequential grid's irr and moic
CellsMatchSequential ==
    \A k \in 1..CellCount :
        /\ Get(cells).runs[k].irr = SequentialTable[k].irr
        /\ Get(cells).runs[k].moic = SequentialTable[k].moic

\* C20 as stated: in every interleaving the cells hold the sequential
\* values, and no run reads a value that another run wrote.
CellsShareNothing ==
    AllCellsDone =>
        /\ CellsMatchSequential
        /\ \A k \in 1..CellCount :
             Get(cells).runs[k].read_from \in {0, k}

\* C20 amended: in every interleaving the cells hold the sequential values;
\* a run may read base_debt_assumptions.initial_debt as another run wrote
\* it, and what it reads is always the capital structure's debt.
CellsAgreeOnSharedDebt ==
    AllCellsDone =>
        /\ CellsMatchSequential
        /\ \A k \in 1..CellCount :
             Get(cells).runs[k].read_from # 0 =>
                Get(cells).runs[k].initial_debt_read = CellSourcesUses.debt

\* three finished cells with different results, one of which built its
\* schedule from what another cell's run had written
CellsAgreeOnSharedDebtWitness ==
    /\ AllCellsDone
    /\ CellCount = 3
    /\ \E k \in 1..CellCount :
         /\ Get(cells).runs[k].read_from \notin {0, k}
         /\ Get(cells).runs[k].irr.kind = "rate"
    /\ Get(cells).runs[1].moic # Get(cells).runs[2].moic
    /\ Get(cells).runs[1].moic # Get(cells).runs[3].moic
    /\ Get(cells).base_debt_before.initial_debt # CellSourcesUses.debt

(***************************************************************************)
(* Application session (app.py): the live engine run and its input hash    *)
(***************************************************************************)
MaxScriptRuns == 3

\* the widget values one script run reads (Model Studio inputs)
UiDomain ==
    { [entry_ebitda |-> R(16), entry_multiple |-> R(8),
       debt_to_ebitda |-> R(4), cash_on_bs |-> Zero,
       transaction_fee_pct |-> Q(1, 32), financing_fee_pct |-> Q(1, 32),
       revenue_growth |-> g, hold_period |-> 3,
       ebitda_margin |-> Q(1, 4), tax_rate |-> Q(1, 4),
       da_pct |-> Q(1, 32), capex_pct |-> Q(1, 32), nwc_pct |-> Q(1, 8),
       interest_rate |-> Q(1, 16), amortization_pct |-> Q(1, 16),
       cash_sweep_enabled |-> TRUE, cash_sweep_pct |-> Q(1, 2),
       exit_mode |-> mode,
       fixed_exit_multiple |-> IF mode = "fixed" THEN R(10) ELSE R(8),
       industry_multiple |-> R(8),
       growth_multiple_factor |-> Q(1, 2)] :
        g \in {Zero, Q(1, 8)}, mode \in {"fixed", "growth_adjusted"} }

\* float(historical_data["revenue"].iloc[-1]) of the datasets
BaseRevenueValues == {R(64), R(128)}

\* _build_assumptions: the four dataclass inputs from the UI scalars
BuildAssumptions(ui, base_revenue) ==
    [capital |-> CapitalStructureInputs(ui.entry_ebitda, ui.entry_multiple,
                                        ui.debt_to_ebitda,
                                        ui.transaction_fee_pct,
                                        ui.financing_fee_pct, ui.cash_on_bs),
     operating |-> OperatingAssumptions(base_revenue,
                                        [i \in 1..ui.hold_period |->
                                            ui.revenue_growth],
                                        ui.ebitda_margin, ui.tax_rate,
                                        ui.da_pct, ui.capex_pct, ui.nwc_pct),
     debt |-> DebtAssumptions(Zero, ui.interest_rate, ui.amortization_pct,
                              ui.cash_sweep_enabled, ui.cash_sweep_pct),
     exit |-> ExitAssumptions(ui.exit_mode, ui.fixed_exit_multiple,
                              ui.entry_multiple, ui.industry_multiple,
                              ui.hold_period, DefaultRevenueCagr,
                              ui.growth_multiple_factor)]

\* _input_hash: the digest of json.dumps(kw, sort_keys=True), kept as the
\* serialised values in key order (digest collisions are not modelled)
InputHash(ui, base_revenue) ==
    <<ui.amortization_pct, base_revenue, ui.capex_pct, ui.cash_on_bs,
      ui.cash_sweep_enabled, ui.cash_sweep_pct, ui.da_pct, ui.debt_to_ebitda,
      ui.ebitda_margin, ui.entry_ebitda, ui.entry_multiple, ui.exit_mode,
      ui.financing_fee_pct, ui.fixed_exit_multiple, ui.growth_multiple_factor,
      ui.hold_period, ui.industry_multiple, ui.interest_rate, ui.nwc_pct,
      ui.revenue_growth, ui.tax_rate, ui.transaction_fee_pct>>

\* the engine run on every script run, whatever hash is stored
HashAlwaysDiffers(current_hash, stored_hash) == TRUE

\* if current_hash != st.session_state.last_input_hash
HashDiffers(current_hash, stored_hash) == current_hash # stored_hash

\* _extract_live_kpis
ExtractLiveKpis(bundle) ==
    LET su == bundle.sources_uses
        initial_debt == su.debt
        final_debt == bundle.exit_results.exit_debt
        op == bundle.operating_projection
        first == op[1].ebitda
        last == op[Len(op)].ebitda
    IN  [irr |-> bundle.irr, moic |-> bundle.moic,
         exit_equity_value |-> bundle.exit_equity_value,
         entry_ev |-> su.enterprise_value,
         max_debt_to_ebitda |-> bundle.risk_flags.max_debt_to_ebitda,
         min_interest_coverage |-> bundle.risk_flags.min_interest_coverage,
         debt_paydown_pct |->
             IF RGt(initial_debt, Zero)
             THEN RDiv(RSub(initial_debt, final_debt), initial_debt)
             ELSE Zero,
         ebitda_cagr |->
             IF Len(op) < 2 THEN Zero
             ELSE IF first = Zero THEN NaN
             ELSE IF RLt(RDiv(last, first), Zero) THEN NaN
             ELSE RSub(PowRoot(RDiv(last, first), Len(op)), One)]

\* the try block of the live run: _build_assumptions, _run_engine and
\* _extract_live_kpis; an exception of any of the calls it makes (fault)
\* ends it like an exception of the engine
LiveRun(ui, base_revenue, version, fault) ==
    LET a == BuildAssumptions(ui, base_revenue)
    IN  CHOOSE out \in
          { IF run.raised \/ fault
            THEN [raised |-> TRUE, live_res |-> PyNone, kpis |-> PyNone]
            ELSE [raised |-> FALSE, live_res |-> Some(Get(run.results)),
                  kpis |-> Some(ExtractLiveKpis(Get(run.results)))]
            : run \in { RunModel(a.capital, a.operating, a.debt, a.exit,
                                 version) } }
          : TRUE

InitSession ==
    /\ npf_version \in {"1.0", "1.1"}
    /\ capital_inputs = Absent
    /\ operating_assumptions = Absent
    /\ debt_assumptions = Absent
    /\ exit_assumptions = Absent
    /\ fcf_series = <<>>
    /\ cap_structure = Absent
    /\ operating = Absent
    /\ debt = Absent
    /\ IdleEngine
    /\ IdleLeverage
    /\ IdleCells
    /\ exit_model = Absent
    /\ historical_data \in { Some(b) : b \in BaseRevenueValues }
    /\ ui_inputs = Absent
    /\ live_results = PyNone
    /\ live_kpis = PyNone
    /\ last_input_hash = PyNone
    /\ script_runs = <<>>

\* the variables the application session leaves alone
SessionFrame ==
    UNCHANGED <<leverage_vars, cell_vars, exit_model, npf_version,
                capital_inputs, operating_assumptions, debt_assumptions,
                exit_assumptions, fcf_series, cap_structure, operating, debt,
                results, prev_results, growth_range, exit_multiple_range,
                sensitivity>>

\* LOAD SAMPLE / a new CSV: the dataset is replaced, the live state is reset
\* and st.rerun() ends the script run before any widget is read
LoadDataset ==
    /\ \E b \in BaseRevenueValues : historical_data' = Some(b)
    /\ ui_inputs' = Absent
    /\ live_results' = PyNone
    /\ live_kpis' = PyNone
    /\ last_input_hash' = PyNone
    /\ script_runs' = <<>>
    /\ SessionFrame

\* one script run of Model Studio: read the widgets, hash them, and run the
\* engine when the hash is not the stored one
ScriptRun ==
    /\ historical_data # Absent
    /\ Len(script_runs) < MaxScriptRuns
    /\ \E ui \in UiDomain, fault \in BOOLEAN :
         LET current_hash == InputHash(ui, Get(historical_data))
         IN  /\ ui_inputs' = Some(ui)
             /\ IF HashDiffers(current_hash, last_input_hash)
                THEN LET out == LiveRun(ui, Get(historical_data),
                                        npf_version, fault)
                     IN  IF out.raised
                         THEN /\ live_results' = PyNone
                              /\ live_kpis' = PyNone
                              /\ UNCHANGED last_input_hash
                              /\ script_runs' =
                                   Append(script_runs,
                                          [hash |-> current_hash,
                                           outcome |-> "failed"])
                         ELSE /\ live_results' = out.live_res
                              /\ live_kpis' = out.kpis
                              /\ last_input_hash' = current_hash
                              /\ script_runs' =
                                   Append(script_runs,
                                          [hash |-> current_hash,
                                           outcome |-> "ok"])
                ELSE /\ UNCHANGED session_state
                     /\ script_runs' =
                          Append(script_runs, [hash |-> current_hash,
                                               outcome |-> "skipped"])
    /\ UNCHANGED historical_data
    /\ SessionFrame

NextSession ==
    \/ LoadDataset
    \/ ScriptRun

SpecSession == InitSession /\ [][NextSession]_vars

\* C21: over the script runs on one dataset, an input key whose engine
\* result was computed successfully is never computed again: no later script
\* run with the same hash invokes the engine.
NoRecomputeAfterSuccess ==
    \A i, j \in 1..Len(script_runs) :
        (i < j /\ script_runs[i].outcome = "ok"
               /\ script_runs[j].hash = script_runs[i].hash)
            => script_runs[j].outcome = "skipped"

ResultForCurrentInputs ==
    LiveRun(Get(ui_inputs), Get(historical_data), npf_version, FALSE)

\* C29: after any script runs, successful or failed, whenever the hash of
\* the current inputs equals the stored last_input_hash, live_results and
\* live_kpis are not None and are the engine's result for those inputs.
LivePanelMatchesStoredHash ==
    (/\ ui_inputs # Absent
     /\ InputHash(Get(ui_inputs), Get(historical_data)) = last_input_hash)
        => /\ live_results # PyNone
           /\ live_kpis # PyNone
           /\ live_results = ResultForCurrentInputs.live_res
           /\ live_kpis = ResultForCurrentInputs.kpis
====
